------------------------- MODULE ControlTLSProofs -------------------------
(***************************************************************************)
(* For every number of commands and every setup of a session: the fields   *)
(* of a session keep their types, both control links agree on TLS, the     *)
(* protection of data connections is the one all three parties agreed on,  *)
(* and the replay to a new origin uses up the replies to it.               *)
(***************************************************************************)
EXTENDS ControlTLS, SequenceTheorems, TLAPS

Verbs     == {"AUTH", "PBSZ", "PROT", "USER", "PASS", "PROXY"}
Switching == {"Greet", "Replay", "Await"}
Places    == Verbs \cup Switching \cup {"Read", "Forward", "Over"}
Codes     == {"200", "220", "230", "234", "331", "500 PROXY", "503", "530"}
Lines     == [code : Codes, more : BOOLEAN]

(* A line that more lines follow is not the last one.                      *)
Whole(lines) ==
    /\ lines \in Seq(Lines)
    /\ \A i \in 1 .. Len(lines) : lines[i].more => i < Len(lines)

(* Types, and what the command that was read says of where C is.           *)
Types ==
    /\ setup \in Setups
    /\ cpc \in Places
    /\ command \in Commands /\ param \in Params
    /\ previousTLSCommands \in Seq(Commands)
    /\ forOrigin \subseteq 10 .. 13
    /\ clientTLS \in Versions /\ originTLS \in Versions
    /\ originProt \in {"C", "P"} /\ clientProt \in {"C", "P"}
    /\ controlInTLS \in BOOLEAN /\ transferInTLS \in BOOLEAN
    /\ isLoggedin \in BOOLEAN /\ pending \in BOOLEAN /\ lastError \in BOOLEAN
    /\ late \in BOOLEAN /\ refused \in BOOLEAN
    /\ Whole(fromOrigin) /\ toOrigin \in Seq(Commands)

Reading ==
    /\ cpc \in Verbs => cpc = command.verb
    /\ cpc \in Switching \cup {"Forward"} => command.verb = "USER"
    /\ command.param \in {"C", "P"} => param = command.param
    /\ cpc \notin {"Read", "PROXY", "Over"} => pending
    /\ cpc = "PROXY" => ~pending
    /\ cpc = "Greet" => Len(fromOrigin) > 0

(* Where the counters may still move.                                      *)
Counters ==
    /\ sent \in 0 .. MaxCommands /\ dials \in 0 .. sent
    /\ cpc = "USER" => dials < sent
    /\ index \in 0 .. Len(previousTLSCommands) + 1
    /\ cpc \in {"Replay", "Await"} => index >= 1
    /\ cpc = "Await" => index <= Len(previousTLSCommands)

(* What pftp keeps for the origin begins with the AUTH that put the client *)
(* into TLS, and the version is pinned to the client's.                    *)
Secured ==
    /\ controlInTLS <=> clientTLS # NoTLS
    /\ clientTLS = NoTLS => previousTLSCommands = <<>>
    /\ clientTLS # NoTLS =>
         /\ previousTLSCommands # <<>> /\ previousTLSCommands[1].verb = "AUTH"
         /\ forOrigin = {clientTLS}

(* The first line of the replay either brings the origin's link to the     *)
(* client's version or leaves an error.                                    *)
Linked ==
    /\ cpc = "Greet" => originTLS = NoTLS
    /\ cpc \in {"Replay", "Await"} =>
         IF index = 1 THEN originTLS = NoTLS
         ELSE lastError \/ originTLS = clientTLS
    /\ cpc \notin Switching \cup {"Over"} /\ dials > 0 /\ ~late
         => originTLS = clientTLS

(* 230 comes from an origin the session has switched to, and only once.    *)
NoLogin(lines) == \A i \in 1 .. Len(lines) : lines[i].code # "230"
LoginLast ==
    /\ isLoggedin => dials > 0 /\ cpc \notin Switching
    /\ dials = 0 => NoLogin(fromOrigin)

(* Which replies answer cmd, and what they say of the origin.              *)
Answers(line, cmd) ==
    /\ ~line.more
    /\ \/ cmd.verb = "AUTH" /\ line.code = "234"
       \/ cmd.verb = "PBSZ" /\ line.code = "200"
       \/ /\ cmd.verb = "PROT" /\ line.code = "200"
          /\ cmd.param \in {"C", "P"} /\ originProt = cmd.param
       \/ cmd.verb \in {"AUTH", "PBSZ", "PROT"} /\ line.code = "503" /\ refused
       \/ cmd.verb = "USER" /\ line.code = "331"
       \/ cmd.verb = "PASS" /\ line.code \in {"230", "530"}

(* Nothing is under way, or the command cmd, or the reply to it; the       *)
(* complaint about the header may come first.                              *)
Complaint == [code |-> "500 PROXY", more |-> FALSE]
Quiet     == toOrigin = <<>> /\ fromOrigin \in {<<>>, <<Complaint>>}
Asked(cmd) == toOrigin = <<cmd>> /\ fromOrigin \in {<<>>, <<Complaint>>}
Told(cmd) ==
    /\ toOrigin = <<>>
    /\ \E line \in Lines : /\ Answers(line, cmd)
                           /\ fromOrigin \in {<<line>>, <<Complaint, line>>}

InStep ==
    ~setup.longReplies /\ (setup.longGreeting => dials = 0) =>
    /\ cpc \in Verbs \cup {"Forward", "Replay"} => Quiet
    /\ cpc = "Read" => IF pending THEN Asked(command) \/ Told(command) ELSE Quiet
    /\ cpc = "Greet" =>
         /\ toOrigin = <<>>
         /\ fromOrigin \in {Reply("220"), Reply("220") \o <<Complaint>>}
    /\ cpc = "Await" => LET cmd == previousTLSCommands[index]
                        IN  Asked(cmd) \/ Told(cmd)
    /\ cpc \in {"Replay", "Await"} /\ index > 1 /\ fromOrigin # <<>>
         => Head(fromOrigin) # Complaint

(* What is left of a long greeting is taken for the answer to AUTH, and    *)
(* fails the switch: with it, the session goes on without TLS, in which    *)
(* nobody says 200.                                                        *)
NoPromise(lines) == \A i \in 1 .. Len(lines) : lines[i].code # "200"
Greeted ==
    setup.longGreeting =>
    /\ cpc = "Greet" => /\ Len(fromOrigin) > 1 /\ fromOrigin[2].code = "220"
                        /\ NoPromise(fromOrigin)
    /\ cpc = "Replay" /\ previousTLSCommands = <<>> => NoPromise(fromOrigin)
    /\ cpc \in {"Replay", "Await"} /\ previousTLSCommands # <<>> =>
         IF index = 1 THEN Len(fromOrigin) > 0 /\ fromOrigin[1].code = "220"
         ELSE lastError
    /\ cpc \notin Switching \cup {"Over"} /\ dials > 0 /\ ~late
         => previousTLSCommands = <<>> /\ NoPromise(fromOrigin)

(* The level that the first n lines of the replay leave an origin with.    *)
Level(lines, n, level) ==
    \/ level = "C" /\ \A i \in 1 .. n : lines[i].verb # "PROT"
    \/ \E i \in 1 .. n : /\ lines[i].verb = "PROT" /\ lines[i].param = level
                        /\ \A j \in i + 1 .. n : lines[j].verb # "PROT"
Levels(lines, n) ==
    \A i \in 1 .. n : lines[i].verb = "PROT" => lines[i].param \in {"C", "P"}

(* A PROT that was passed on is not answered yet.                          *)
Asking == cpc = "Read" /\ pending /\ command.verb = "PROT"

(* The client, pftp and the origin know the same level, or will after the  *)
(* PROT that is asked or the rest of the replay.                           *)
Agreement ==
    /\ Asking => isLoggedin /\ controlInTLS /\ (transferInTLS <=> param = "P")
    /\ ~Asking => (transferInTLS <=> clientProt = "P")
    /\ ~Asking /\ dials > 0 /\ cpc \notin Switching \cup {"Over"}
         => originProt = clientProt

Replayed ==
    LET lines == previousTLSCommands
        done  == IF cpc = "Await" /\ toOrigin = <<>> THEN index ELSE index - 1
    IN  /\ ~isLoggedin /\ Levels(lines, Len(lines))
             => Level(lines, Len(lines), clientProt)
        /\ cpc = "Greet" => originProt = "C"
        /\ cpc \in {"Replay", "Await"} /\ (setup.longGreeting => lines = <<>>)
             => Levels(lines, done) /\ Level(lines, done, originProt)

Protected == ~late /\ ~refused /\ ~setup.longReplies => Agreement /\ Replayed

IInv == /\ Types /\ Reading /\ Counters /\ Secured /\ Linked /\ LoginLast
        /\ InStep /\ Greeted /\ Protected

-----------------------------------------------------------------------------
(* Lines and commands.                                                     *)

LEMMA ComplaintIsLine ==
    Complaint \in Lines /\ Complaint.code = "500 PROXY" /\ ~Complaint.more
BY DEF Complaint, Lines, Codes

LEMMA ReplyIs ==
    ASSUME NEW code \in Codes
    PROVE  /\ Reply(code) = <<[code |-> code, more |-> FALSE]>>
           /\ [code |-> code, more |-> FALSE] \in Lines
BY DEF Reply, Lines

LEMMA WholeReply ==
    ASSUME NEW code \in Codes
    PROVE  /\ Whole(Reply(code)) /\ Len(Reply(code)) = 1
           /\ Reply(code)[1].code = code
<1> DEFINE line == [code |-> code, more |-> FALSE]
<1>1. Reply(code) = <<line>> /\ line \in Lines /\ line.code = code /\ ~line.more
  BY ReplyIs
<1> HIDE DEF line
<1>2. <<line>> \in Seq(Lines) /\ Len(<<line>>) = 1 /\ <<line>>[1] = line
  BY <1>1
<1> QED
  BY <1>1, <1>2 DEF Whole

LEMMA Pair ==
    ASSUME NEW a, NEW b
    PROVE  <<a>> \o <<b>> = <<a, b>>
<1> DEFINE S == {a, b}
           pair == <<a, b>>
<1>1. pair \in Seq(S) /\ <<a>> \in Seq(S) /\ <<b>> \in Seq(S)
  OBVIOUS
<1>2. /\ Len(<<a>>) = 1 /\ Len(<<b>>) = 1 /\ Len(pair) = 2
      /\ <<a>>[1] = a /\ <<b>>[1] = b /\ pair[1] = a /\ pair[2] = b
  OBVIOUS
<1> HIDE DEF S, pair
<1>3. /\ <<a>> \o <<b>> \in Seq(S) /\ Len(<<a>> \o <<b>>) = 2
      /\ \A i \in 1 .. 2 : (<<a>> \o <<b>>)[i] =
                             IF i <= 1 THEN <<a>>[i] ELSE <<b>>[i - 1]
  BY <1>1, <1>2, ConcatProperties
<1>4. \A i \in 1 .. 2 : (<<a>> \o <<b>>)[i] = pair[i]
  <2>1. (<<a>> \o <<b>>)[1] = a /\ (<<a>> \o <<b>>)[2] = b
    BY <1>2, <1>3
  <2>2. 1 .. 2 = {1, 2}
    OBVIOUS
  <2> QED
    BY <1>2, <2>1, <2>2
<1>5. <<a>> \o <<b>> = pair
  BY <1>1, <1>2, <1>3, <1>4, SeqEqual
<1> QED
  BY <1>5 DEF pair

LEMMA LongReplyIs ==
    ASSUME NEW code \in Codes, NEW long \in BOOLEAN
    PROVE  LongReply(code, long) =
             IF long THEN <<[code |-> code, more |-> TRUE],
                            [code |-> code, more |-> FALSE]>>
             ELSE <<[code |-> code, more |-> FALSE]>>
<1> DEFINE first == [code |-> code, more |-> TRUE]
           last  == [code |-> code, more |-> FALSE]
<1>1. CASE long
  <2>1. LongReply(code, long) = <<first>> \o <<last>>
    BY <1>1 DEF LongReply, Reply
  <2> HIDE DEF first, last
  <2>2. LongReply(code, long) = <<first, last>>
    BY <2>1, Pair
  <2> QED
    BY <1>1, <2>2 DEF first, last
<1>2. CASE ~long
  <2>1. LongReply(code, long) = <<>> \o <<last>>
    BY <1>2 DEF LongReply, Reply
  <2> HIDE DEF last
  <2>2. LongReply(code, long) = <<last>>
    BY <2>1
  <2> QED
    BY <1>2, <2>2 DEF last
<1> QED
  BY <1>1, <1>2

LEMMA WholeLongReply ==
    ASSUME NEW code \in Codes, NEW long \in BOOLEAN
    PROVE  /\ Whole(LongReply(code, long)) /\ Len(LongReply(code, long)) > 0
           /\ \A i \in 1 .. Len(LongReply(code, long)) :
                LongReply(code, long)[i].code = code
<1> DEFINE first == [code |-> code, more |-> TRUE]
           last  == [code |-> code, more |-> FALSE]
<1>1. /\ first \in Lines /\ first.code = code
      /\ last \in Lines /\ last.code = code /\ ~last.more
  BY DEF Lines
<1>2. LongReply(code, long) = IF long THEN <<first, last>> ELSE <<last>>
  BY LongReplyIs
<1> HIDE DEF first, last
<1>3. CASE long
  <2>1. /\ <<first, last>> \in Seq(Lines) /\ Len(<<first, last>>) = 2
        /\ <<first, last>>[1] = first /\ <<first, last>>[2] = last
    BY <1>1
  <2> QED
    BY <1>1, <1>2, <1>3, <2>1 DEF Whole
<1>4. CASE ~long
  <2>1. <<last>> \in Seq(Lines) /\ Len(<<last>>) = 1 /\ <<last>>[1] = last
    BY <1>1
  <2> QED
    BY <1>1, <1>2, <1>4, <2>1 DEF Whole
<1> QED
  BY <1>3, <1>4

LEMMA WholeConcat ==
    ASSUME NEW s, NEW t, Whole(s), Whole(t)
    PROVE  /\ Whole(s \o t)
           /\ NoLogin(s) /\ NoLogin(t) => NoLogin(s \o t)
           /\ NoPromise(s) /\ NoPromise(t) => NoPromise(s \o t)
           /\ Len(s) > 0 => Len(s \o t) > 0 /\ (s \o t)[1] = s[1]
           /\ Len(s) > 1 => Len(s \o t) > 1 /\ (s \o t)[2] = s[2]
<1>1. /\ s \in Seq(Lines) /\ t \in Seq(Lines)
      /\ Len(s) \in Nat /\ Len(t) \in Nat
  BY LenProperties DEF Whole
<1>2. /\ s \o t \in Seq(Lines) /\ Len(s \o t) = Len(s) + Len(t)
      /\ \A i \in 1 .. Len(s) + Len(t) :
           (s \o t)[i] = IF i <= Len(s) THEN s[i] ELSE t[i - Len(s)]
  BY <1>1, ConcatProperties
<1>3. \A i \in 1 .. Len(s) + Len(t) :
        \/ i \in 1 .. Len(s) /\ (s \o t)[i] = s[i]
        \/ i - Len(s) \in 1 .. Len(t) /\ (s \o t)[i] = t[i - Len(s)]
  BY <1>1, <1>2
<1>4. Whole(s \o t)
  <2> SUFFICES ASSUME NEW i \in 1 .. Len(s \o t), (s \o t)[i].more
               PROVE  i < Len(s \o t)
    BY <1>2 DEF Whole
  <2>1. CASE i \in 1 .. Len(s) /\ (s \o t)[i] = s[i]
    BY <1>1, <1>2, <2>1 DEF Whole
  <2>2. CASE i - Len(s) \in 1 .. Len(t) /\ (s \o t)[i] = t[i - Len(s)]
    BY <1>1, <1>2, <2>2 DEF Whole
  <2> QED
    BY <1>2, <1>3, <2>1, <2>2
<1>5. NoLogin(s) /\ NoLogin(t) => NoLogin(s \o t)
  BY <1>2, <1>3 DEF NoLogin
<1>6. NoPromise(s) /\ NoPromise(t) => NoPromise(s \o t)
  BY <1>2, <1>3 DEF NoPromise
<1>7. Len(s) > 0 => Len(s \o t) > 0 /\ (s \o t)[1] = s[1]
  BY <1>1, <1>2
<1>8. Len(s) > 1 => Len(s \o t) > 1 /\ (s \o t)[2] = s[2]
  BY <1>1, <1>2
<1> QED
  BY <1>4, <1>5, <1>6, <1>7, <1>8

LEMMA WholeTail ==
    ASSUME NEW s, Whole(s), s # <<>>
    PROVE  /\ Whole(Tail(s))
           /\ Head(s) = s[1] /\ Head(s) \in Lines
           /\ NoLogin(s) => NoLogin(Tail(s)) /\ Head(s).code # "230"
           /\ NoPromise(s) => NoPromise(Tail(s)) /\ Head(s).code # "200"
           /\ Head(s).more => Tail(s) # <<>>
           /\ Len(s) > 1 => Len(Tail(s)) > 0 /\ Tail(s)[1] = s[2]
<1>1. s \in Seq(Lines) /\ Len(s) \in Nat \ {0}
  BY EmptySeq DEF Whole
<1>2. /\ Head(s) \in Lines /\ Tail(s) \in Seq(Lines)
      /\ Len(Tail(s)) = Len(s) - 1
      /\ \A i \in 1 .. Len(Tail(s)) : Tail(s)[i] = s[i + 1]
  BY <1>1, HeadTailProperties
<1>3. Head(s) = s[1]
  BY <1>1
<1>4. Whole(Tail(s))
  <2> SUFFICES ASSUME NEW i \in 1 .. Len(Tail(s)), Tail(s)[i].more
               PROVE  i < Len(Tail(s))
    BY <1>2 DEF Whole
  <2>1. i + 1 \in 1 .. Len(s) /\ s[i + 1].more
    BY <1>1, <1>2
  <2> QED
    BY <1>1, <1>2, <2>1 DEF Whole
<1>5. NoLogin(s) => NoLogin(Tail(s)) /\ Head(s).code # "230"
  BY <1>1, <1>2, <1>3 DEF NoLogin
<1>6. NoPromise(s) => NoPromise(Tail(s)) /\ Head(s).code # "200"
  BY <1>1, <1>2, <1>3 DEF NoPromise
<1>7. Head(s).more => Tail(s) # <<>>
  <2>1. Head(s).more => 1 < Len(s)
    BY <1>1, <1>3 DEF Whole
  <2> QED
    BY <1>1, <1>2, <2>1
<1>8. Len(s) > 1 => Len(Tail(s)) > 0 /\ Tail(s)[1] = s[2]
  BY <1>1, <1>2
<1> QED
  BY <1>2, <1>3, <1>4, <1>5, <1>6, <1>7, <1>8

(* The short queues of InStep.                                             *)
LEMMA ShortQueues ==
    ASSUME NEW a, NEW b
    PROVE  /\ <<>> \o <<a>> = <<a>> /\ <<a>> \o <<>> = <<a>>
           /\ <<a>> \o <<b>> = <<a, b>> /\ Append(<<>>, a) = <<a>>
           /\ Head(<<a>>) = a /\ Tail(<<a>>) = <<>>
           /\ Head(<<a, b>>) = a /\ Tail(<<a, b>>) = <<b>>
           /\ <<a>> # <<>> /\ <<a, b>> # <<>>
<1>1. <<>> \o <<a>> = <<a>> /\ <<a>> \o <<>> = <<a>>
  OBVIOUS
<1>2. Append(<<>>, a) = <<a>> /\ Head(<<a>>) = a /\ Tail(<<a>>) = <<>>
  OBVIOUS
<1>3. Head(<<a, b>>) = a /\ Tail(<<a, b>>) = <<b>>
  OBVIOUS
<1>4. <<a>> # <<>> /\ <<a, b>> # <<>>
  OBVIOUS
<1> QED
  BY <1>1, <1>2, <1>3, <1>4, Pair

-----------------------------------------------------------------------------
(* The first step of every proof below: a step is one of these.            *)
LEMMA NextSplits ==
    ASSUME [Next]_vars
    PROVE  \/ \E cmd \in Commands : ReadCommand(cmd)
           \/ HandleAUTH \/ HandlePROT \/ HandlePROXY \/ Forward
           \/ RefuseUSER \/ DialOrigin \/ ReadGreeting
           \/ SendTLSCommand \/ ReadTLSReply \/ EndReplay
           \/ LineLost \/ ReplyLost
           \/ ForwardReply \/ OriginReply
           \/ UNCHANGED vars
BY DEF Next, Idle

(* A line or a reply that is lost ends the command and does nothing else.   *)
LEMMA Lost ==
    ASSUME LineLost \/ ReplyLost
    PROVE  /\ cpc \in {"AUTH", "PBSZ", "PROT", "USER", "PASS", "Forward"}
           /\ cpc' \in {"Read", "Over"} /\ pending' = FALSE
           /\ UNCHANGED <<setup, command, param, index, lastError, tlsVars,
                          isLoggedin, dials, originVars, sent, clientProt, history>>
BY DEF LineLost, ReplyLost, Answered, FailSwitch

LEMMA SetupFields ==
    ASSUME setup \in Setups
    PROVE  /\ setup.client \subseteq 10 .. 13 /\ setup.origins \subseteq 10 .. 13
           /\ setup.longGreeting \in BOOLEAN /\ setup.longReplies \in BOOLEAN
           /\ Offered \subseteq 10 .. 13
<1>1. setup \in Setup
  BY ControlTLSAssumption
<1>2. \A name : getTLSProtocol(name) \in 10 .. 13
  BY DEF getTLSProtocol
<1>3. Offered \subseteq 10 .. 13
  <2>1. getTLSProtocol(setup.min) \in 10 .. 13 /\ getTLSProtocol(setup.max) \in 10 .. 13
    BY <1>2
  <2> QED
    BY <2>1 DEF Offered
<1> QED
  BY <1>1, <1>3 DEF Setup

LEMMA CommandFields ==
    ASSUME NEW cmd \in Commands
    PROVE  /\ cmd.verb \in Verbs
           /\ cmd.verb = "PROT" => cmd.param \in {"none", "C", "P"}
           /\ cmd.param \in {"C", "P"} => cmd.verb = "PROT"
           /\ NewParam(cmd) \in Params \/ param \notin Params
           /\ cmd.param \in {"C", "P"} => NewParam(cmd) = cmd.param
BY DEF Commands, Verbs, Params, NewParam

-----------------------------------------------------------------------------
LEMMA InitInv == Init => IInv
<1> SUFFICES ASSUME Init PROVE IInv
  OBVIOUS
<1>1. /\ setup \in Setups /\ forOrigin = Offered
      /\ cpc = "Read" /\ command = [verb |-> "PASS", param |-> "other"]
      /\ param = "none" /\ index = 0 /\ ~lastError
      /\ ~controlInTLS /\ ~transferInTLS /\ previousTLSCommands = <<>>
      /\ clientTLS = NoTLS /\ originTLS = NoTLS
      /\ ~isLoggedin /\ dials = 0 /\ sent = 0 /\ ~pending /\ ~late /\ ~refused
      /\ toOrigin = <<>> /\ fromOrigin = <<>> /\ originProt = "C" /\ clientProt = "C"
  BY DEF Init
<1>0. Len(<<>>) = 0 /\ <<>> \in Seq(Commands) /\ <<>> \in Seq(Lines)
  OBVIOUS
<1>2. Types
  <2>1. command \in Commands
    BY <1>1 DEF Commands
  <2>2. Whole(fromOrigin) /\ toOrigin \in Seq(Commands)
    BY <1>0, <1>1 DEF Whole
  <2>3. previousTLSCommands \in Seq(Commands)
    BY <1>0, <1>1
  <2>4. cpc \in Places /\ param \in Params
    BY <1>1 DEF Places, Params
  <2>5. /\ {controlInTLS, transferInTLS, isLoggedin, pending, lastError, late, refused}
             \subseteq BOOLEAN
    BY DEF Init
  <2>6. forOrigin \subseteq 10 .. 13
    BY <1>1, SetupFields
  <2> QED
    BY <1>1, <2>1, <2>2, <2>3, <2>4, <2>5, <2>6 DEF Types, Versions
<1>3. Reading /\ Secured /\ Linked
  <2>1. Secured
    BY <1>1 DEF Secured
  <2> QED
    BY <1>1, <2>1 DEF Reading, Verbs, Linked, Switching
<1>4. Counters
  BY <1>0, <1>1, ControlTLSAssumption DEF Counters
<1>5. LoginLast /\ Greeted
  BY <1>0, <1>1 DEF LoginLast, NoLogin, Greeted, Switching
<1>6. InStep
  BY <1>1 DEF InStep, Quiet, Verbs
<1>7. Protected
  <2>1. Agreement
    BY <1>1 DEF Agreement, Asking
  <2>2. Level(previousTLSCommands, Len(previousTLSCommands), clientProt)
    BY <1>0, <1>1 DEF Level
  <2>3. Replayed
    BY <1>1, <2>2 DEF Replayed
  <2> QED
    BY <2>1, <2>3 DEF Protected
<1> QED
  BY <1>2, <1>3, <1>4, <1>5, <1>6, <1>7 DEF IInv

-----------------------------------------------------------------------------
(* Types.                                                                  *)

LEMMA VersionsAgreed ==
    ASSUME NEW ours \in SUBSET (10 .. 13), NEW theirs, NEW v \in Negotiated(ours, theirs)
    PROVE  v \in 10 .. 13 /\ v \in Versions /\ v # NoTLS /\ v \in ours
BY DEF Negotiated, Versions, NoTLS

(* What an origin says.                                                    *)
LEMMA OriginSays ==
    ASSUME Types, OriginReply
    PROVE  \E answer :
             /\ fromOrigin' = fromOrigin \o answer
             /\ Whole(answer)
             /\ dials = 0 => NoLogin(answer)
             /\ originTLS = NoTLS => NoPromise(answer)
<1> DEFINE Fine(answer) == /\ Whole(answer)
                           /\ dials = 0 => NoLogin(answer)
                           /\ originTLS = NoTLS => NoPromise(answer)
<1>1. \A code \in Codes \ {"200", "230"} : Fine(Reply(code))
  BY WholeReply DEF NoLogin, NoPromise
<1>2. dials > 0 => Fine(Reply("230"))
  <2>1. "230" \in Codes /\ (dials > 0 => dials # 0)
    BY DEF Codes
  <2> QED
    BY <2>1, WholeReply DEF NoPromise
<1>3. originTLS # NoTLS => Fine(LongReply("200", setup.longReplies))
  <2>1. "200" \in Codes /\ setup.longReplies \in BOOLEAN
    BY SetupFields DEF Codes, Types
  <2> QED
    BY <2>1, WholeLongReply DEF NoLogin
<1> HIDE DEF Fine
<1>4. \E answer : fromOrigin' = fromOrigin \o answer /\ Fine(answer)
  BY <1>1, <1>2, <1>3 DEF OriginReply, Codes
<1> QED
  BY <1>4 DEF Fine

LEMMA TypesKept == ASSUME IInv, [Next]_vars PROVE Types'
<1> USE DEF IInv, Types
<1>1. CASE \E cmd \in Commands : ReadCommand(cmd)
  <2>1. PICK cmd \in Commands : ReadCommand(cmd)
    BY <1>1
  <2>2. cmd.verb \in Places /\ param' \in Params
    BY <2>1, CommandFields DEF ReadCommand, Places
  <2> QED
    BY <2>1, <2>2 DEF ReadCommand, originVars, tlsVars, history
<1>2. CASE HandleAUTH
  <2>1. Append(previousTLSCommands, command) \in Seq(Commands)
    BY AppendProperties
  <2>2. \A v \in Negotiated(Offered, setup.client) : v \in 10 .. 13 /\ v \in Versions
    BY SetupFields, VersionsAgreed
  <2>3. /\ previousTLSCommands' \in Seq(Commands)
        /\ forOrigin' \subseteq 10 .. 13 /\ clientTLS' \in Versions
        /\ controlInTLS' \in BOOLEAN /\ late' \in BOOLEAN
    BY <1>2, <2>1, <2>2 DEF HandleAUTH, Remembered, Pinned
  <2> QED
    BY <1>2, <2>3 DEF HandleAUTH, Answered, originVars, Places
<1>3. CASE HandlePROT
  <2>1. Append(previousTLSCommands, command) \in Seq(Commands)
    BY AppendProperties
  <2>2. Append(toOrigin, command) \in Seq(Commands)
    BY AppendProperties
  <2>3. previousTLSCommands' \in Seq(Commands) /\ toOrigin' \in Seq(Commands)
    BY <1>3, <2>1, <2>2 DEF HandlePROT, Remembered
  <2>4. /\ cpc' \in Places /\ pending' \in BOOLEAN
        /\ clientProt' \in {"C", "P"} /\ late' \in BOOLEAN /\ refused' \in BOOLEAN
    BY <1>3 DEF HandlePROT, Answered, Places, history
  <2>5. transferInTLS' \in BOOLEAN
    BY <1>3 DEF HandlePROT
  <2> QED
    BY <1>3, <2>3, <2>4, <2>5 DEF HandlePROT
<1>4. CASE HandlePROXY
  BY <1>4 DEF HandlePROXY, originVars, clientVars, history, Places
<1>5. CASE Forward
  <2>1. Append(toOrigin, command) \in Seq(Commands)
    BY AppendProperties
  <2> QED
    BY <1>5, <2>1 DEF Forward, tlsVars, clientVars, history, Places
<1>6. CASE RefuseUSER
  BY <1>6 DEF RefuseUSER, Answered, tlsVars, originVars, history, Places
<1>7. CASE DialOrigin
  <2>1. Whole(fromOrigin')
    <3>1. Whole(LongReply("220", setup.longGreeting))
      BY SetupFields, WholeLongReply DEF Codes
    <3>2. Whole(Reply("500 PROXY"))
      BY WholeReply DEF Codes
    <3>3. Whole(<<>>)
      BY DEF Whole
    <3> QED
      BY <1>7, <3>1, <3>2, <3>3, WholeConcat DEF DialOrigin
  <2>2. toOrigin' \in Seq(Commands) /\ originTLS' \in Versions /\ originProt' = "C"
    <3>1. <<>> \in Seq(Commands)
      OBVIOUS
    <3> QED
      BY <1>7, <3>1 DEF DialOrigin, Versions
  <2>3. cpc' \in Places /\ pending' \in BOOLEAN
    BY <1>7 DEF DialOrigin, FailSwitch, Places, Switching
  <2> QED
    BY <1>7, <2>1, <2>2, <2>3 DEF DialOrigin, tlsVars, history
<1>8. CASE ReadGreeting
  <2>1. cpc = "Greet" /\ fromOrigin' = Tail(fromOrigin)
    BY <1>8 DEF ReadGreeting
  <2>2. fromOrigin # <<>>
    BY <2>1, EmptySeq DEF Reading
  <2>3. Whole(fromOrigin')
    BY <2>1, <2>2, WholeTail
  <2> QED
    BY <1>8, <2>3 DEF ReadGreeting, tlsVars, clientVars, history, Places, Switching
<1>9. CASE SendTLSCommand
  <2>1. Append(toOrigin, previousTLSCommands[index]) \in Seq(Commands)
    BY <1>9, AppendProperties, ElementOfSeq DEF SendTLSCommand, Counters
  <2> QED
    BY <1>9, <2>1 DEF SendTLSCommand, tlsVars, clientVars, history, Places, Switching
<1>10. CASE ReadTLSReply
  <2>1. Whole(fromOrigin')
    BY <1>10, WholeTail DEF ReadTLSReply
  <2>2. /\ cpc' \in Places /\ pending' \in BOOLEAN /\ lastError' \in BOOLEAN
        /\ originTLS' \in Versions
    BY <1>10, VersionsAgreed DEF ReadTLSReply, FailSwitch, Places, Switching
  <2> QED
    BY <1>10, <2>1, <2>2 DEF ReadTLSReply, tlsVars, history
<1>11. CASE EndReplay
  BY <1>11 DEF EndReplay, FailSwitch, tlsVars, originVars, history, Places
<1>12. CASE ForwardReply
  <2>1. Whole(Tail(fromOrigin)) /\ (Head(fromOrigin).more => Tail(fromOrigin) # <<>>)
    BY <1>12, WholeTail DEF ForwardReply
  <2>2. Whole(fromOrigin')
    BY <1>12, <2>1, WholeTail DEF ForwardReply
  <2>3. isLoggedin' \in BOOLEAN /\ pending' \in BOOLEAN /\ clientProt' \in {"C", "P"}
    BY <1>12 DEF ForwardReply, PromisedLevel
  <2> QED
    BY <1>12, <2>2, <2>3 DEF ForwardReply, tlsVars, history
<1>13. CASE OriginReply
  <2>1. Tail(toOrigin) \in Seq(Commands)
    BY <1>13, HeadTailProperties DEF OriginReply
  <2>2. Whole(fromOrigin')
    BY <1>13, OriginSays, WholeConcat
  <2>3. originProt' \in {"C", "P"} /\ refused' \in BOOLEAN
    BY <1>13 DEF OriginReply
  <2> QED
    BY <1>13, <2>1, <2>2, <2>3 DEF OriginReply, tlsVars, clientVars
<1>14. CASE UNCHANGED vars
  BY <1>14 DEF vars, tlsVars, originVars, clientVars, history
<1>lost. CASE LineLost \/ ReplyLost
  BY <1>lost, Lost DEF tlsVars, originVars, history, Places
<1> QED
  BY <1>1, <1>2, <1>3, <1>4, <1>5, <1>6, <1>7, <1>8, <1>9, <1>10, <1>11, <1>12,
     <1>13, <1>14, <1>lost, NextSplits

-----------------------------------------------------------------------------
LEMMA ReadingKept == ASSUME IInv, [Next]_vars PROVE Reading'
<1> USE DEF Reading
<1>1. CASE \E cmd \in Commands : ReadCommand(cmd)
  <2>1. PICK cmd \in Commands : ReadCommand(cmd)
    BY <1>1
  <2>2. /\ command' = cmd /\ cpc' = cmd.verb /\ cmd.verb \in Verbs
        /\ pending' = (cmd.verb # "PROXY")
        /\ cmd.param \in {"C", "P"} => param' = cmd.param
    BY <2>1, CommandFields DEF ReadCommand
  <2> QED
    BY <2>2 DEF Verbs, Switching
<1>2. CASE HandleAUTH \/ HandlePROT \/ HandlePROXY \/ Forward \/ RefuseUSER
  <2>1. cpc' = "Read" /\ command' = command /\ param' = param
    BY <1>2 DEF HandleAUTH, HandlePROT, HandlePROXY, Forward, RefuseUSER, Answered
  <2> QED
    BY <2>1 DEF IInv, Verbs, Switching
<1>3. CASE DialOrigin
  <2>1. Len(fromOrigin') > 0
    <3>1. /\ Whole(LongReply("220", setup.longGreeting))
          /\ Len(LongReply("220", setup.longGreeting)) > 0
      BY SetupFields, WholeLongReply DEF Codes, IInv, Types
    <3>2. Whole(Reply("500 PROXY"))
      BY WholeReply DEF Codes
    <3>3. Whole(<<>>)
      BY DEF Whole
    <3> QED
      BY <1>3, <3>1, <3>2, <3>3, WholeConcat DEF DialOrigin
  <2>2. pending /\ command' = command /\ param' = param /\ command.verb = "USER"
    BY <1>3 DEF DialOrigin, IInv, Verbs
  <2>3. (cpc' = "Greet" /\ pending' = pending) \/ cpc' = "Over"
    BY <1>3 DEF DialOrigin, FailSwitch
  <2> QED
    BY <2>1, <2>2, <2>3 DEF IInv, Verbs, Switching
<1>4. CASE ReadGreeting \/ SendTLSCommand \/ ReadTLSReply \/ EndReplay
  <2>1. pending /\ command' = command /\ param' = param /\ command.verb = "USER"
    BY <1>4 DEF ReadGreeting, SendTLSCommand, ReadTLSReply, EndReplay, IInv, Switching
  <2>2. \/ cpc' \in {"Replay", "Await", "Forward"} /\ pending' = pending
        \/ cpc' = "Over"
    BY <1>4 DEF ReadGreeting, SendTLSCommand, ReadTLSReply, EndReplay,
                FailSwitch, clientVars
  <2> QED
    BY <2>1, <2>2 DEF IInv, Verbs, Switching
<1>5. CASE ForwardReply
  BY <1>5 DEF ForwardReply, IInv, Verbs, Switching
<1>6. CASE OriginReply
  <2>1. Len(fromOrigin) > 0 => Len(fromOrigin') > 0
    BY <1>6, OriginSays, WholeConcat DEF IInv, Types
  <2> QED
    BY <1>6, <2>1 DEF OriginReply, clientVars, IInv
<1>7. CASE UNCHANGED vars
  BY <1>7 DEF vars, clientVars, originVars, IInv
<1>lost. CASE LineLost \/ ReplyLost
  BY <1>lost, Lost DEF IInv, Verbs, Switching
<1> QED
  BY <1>1, <1>2, <1>3, <1>4, <1>5, <1>6, <1>7, <1>lost, NextSplits

LEMMA CountersKept == ASSUME IInv, [Next]_vars PROVE Counters'
<1> USE DEF Counters
<1>0. Len(previousTLSCommands) \in Nat
  BY LenProperties DEF IInv, Types
<1>1. CASE \E cmd \in Commands : ReadCommand(cmd)
  BY <1>1, CommandFields, ControlTLSAssumption
  DEF ReadCommand, tlsVars, originVars, IInv, Verbs
<1>2. CASE HandleAUTH \/ HandlePROT
  <2>1. Len(Append(previousTLSCommands, command)) = Len(previousTLSCommands) + 1
    BY AppendProperties DEF IInv, Types
  <2>2. Len(previousTLSCommands') \in {Len(previousTLSCommands), Len(previousTLSCommands) + 1}
    BY <1>2, <2>1 DEF HandleAUTH, HandlePROT, Remembered
  <2>3. UNCHANGED <<sent, dials, index>> /\ cpc' = "Read"
    BY <1>2 DEF HandleAUTH, HandlePROT, Answered
  <2> QED
    BY <1>0, <2>2, <2>3 DEF IInv
<1>3. CASE HandlePROXY \/ Forward \/ RefuseUSER
  <2>1. UNCHANGED <<sent, dials, index, previousTLSCommands>> /\ cpc' = "Read"
    BY <1>3 DEF HandlePROXY, Forward, RefuseUSER, Answered, tlsVars, clientVars
  <2> QED
    BY <2>1 DEF IInv
<1>4. CASE DialOrigin
  <2>1. /\ dials' = dials + 1 /\ dials < sent
        /\ UNCHANGED <<sent, index, previousTLSCommands>> /\ cpc' \in {"Greet", "Over"}
    BY <1>4 DEF DialOrigin, FailSwitch, tlsVars, IInv
  <2> QED
    BY <2>1 DEF IInv
<1>5. CASE ReadGreeting
  <2>1. /\ index' = 1 /\ cpc' = "Replay"
        /\ UNCHANGED <<sent, dials, previousTLSCommands>>
    BY <1>5 DEF ReadGreeting, tlsVars, clientVars
  <2> QED
    BY <1>0, <2>1 DEF IInv
<1>6. CASE SendTLSCommand
  BY <1>6 DEF SendTLSCommand, tlsVars, clientVars, IInv
<1>7. CASE ReadTLSReply
  <2>1. /\ \/ cpc' = "Replay" /\ index' = index + 1
           \/ cpc' \in {"Over", "Await"} /\ index' = index
        /\ cpc = "Await" /\ UNCHANGED <<sent, dials, previousTLSCommands>>
    BY <1>7 DEF ReadTLSReply, FailSwitch, tlsVars
  <2> QED
    BY <1>0, <2>1 DEF IInv
<1>8. CASE EndReplay
  BY <1>8 DEF EndReplay, FailSwitch, tlsVars, IInv
<1>9. CASE ForwardReply \/ OriginReply \/ UNCHANGED vars
  <2>1. UNCHANGED <<cpc, sent, dials, index, previousTLSCommands>>
    BY <1>9 DEF ForwardReply, OriginReply, vars, tlsVars, clientVars
  <2> QED
    BY <2>1 DEF IInv
<1>lost. CASE LineLost \/ ReplyLost
  BY <1>lost, Lost DEF tlsVars, IInv
<1> QED
  BY <1>1, <1>2, <1>3, <1>4, <1>5, <1>6, <1>7, <1>8, <1>9, <1>lost, NextSplits

-----------------------------------------------------------------------------
(* TLS on the two links.                                                   *)

LEMMA SecuredKept == ASSUME IInv, [Next]_vars PROVE Secured'
<1>1. CASE HandleAUTH
  <2>1. CASE UNCHANGED <<controlInTLS, clientTLS, forOrigin, previousTLSCommands>>
    BY <2>1 DEF IInv, Secured
  <2>2. ASSUME NEW v \in Negotiated(Offered, setup.client),
               controlInTLS' = TRUE, clientTLS' = v, forOrigin' = {v},
               previousTLSCommands' = Append(previousTLSCommands, command)
        PROVE  Secured'
    <3>1. v # NoTLS
      BY SetupFields, VersionsAgreed DEF IInv, Types
    <3>2. command.verb = "AUTH"
      BY <1>1 DEF HandleAUTH, IInv, Reading, Verbs
    <3>3. previousTLSCommands' # <<>> /\ previousTLSCommands'[1].verb = "AUTH"
      <4>1. CASE previousTLSCommands = <<>>
        BY <2>2, <3>2, <4>1
      <4>2. CASE previousTLSCommands # <<>>
        <5>1. Len(previousTLSCommands) \in Nat \ {0}
          BY <4>2, EmptySeq DEF IInv, Types
        <5>2. Append(previousTLSCommands, command)[1] = previousTLSCommands[1]
          BY <5>1, AppendProperties DEF IInv, Types
        <5> QED
          BY <2>2, <4>2, <5>2, AppendProperties DEF IInv, Types, Secured
      <4> QED
        BY <4>1, <4>2
    <3> QED
      BY <2>2, <3>1, <3>3 DEF Secured
  <2> QED
    BY <1>1, <2>1, <2>2 DEF HandleAUTH, Remembered, Pinned
<1>2. CASE HandlePROT
  <2>1. UNCHANGED <<controlInTLS, clientTLS, forOrigin>>
    BY <1>2 DEF HandlePROT
  <2>2. CASE UNCHANGED previousTLSCommands
    BY <2>1, <2>2 DEF IInv, Secured
  <2>3. CASE /\ controlInTLS
             /\ previousTLSCommands' = Append(previousTLSCommands, command)
    <3>1. clientTLS # NoTLS /\ previousTLSCommands # <<>>
      BY <2>3 DEF IInv, Secured
    <3>2. Len(previousTLSCommands) \in Nat \ {0}
      BY <3>1, EmptySeq DEF IInv, Types
    <3>3. /\ Append(previousTLSCommands, command)[1] = previousTLSCommands[1]
          /\ Append(previousTLSCommands, command) # <<>>
      BY <3>2, AppendProperties DEF IInv, Types
    <3> QED
      BY <2>1, <2>3, <3>1, <3>3 DEF IInv, Secured
  <2> QED
    BY <1>2, <2>2, <2>3 DEF HandlePROT, Remembered
<1>3. CASE UNCHANGED <<controlInTLS, clientTLS, forOrigin, previousTLSCommands>>
  BY <1>3 DEF IInv, Secured
<1> QED
  BY <1>1, <1>2, <1>3, Lost, NextSplits
  DEF ReadCommand, HandlePROXY, Forward, RefuseUSER, DialOrigin, ReadGreeting,
      SendTLSCommand, ReadTLSReply, EndReplay, ForwardReply, OriginReply, vars, tlsVars

(* The version an origin agrees on after AUTH is the client's.             *)
LEMMA PinnedVersion ==
    ASSUME Secured, previousTLSCommands # <<>>,
           NEW v \in Negotiated(forOrigin, setup.origins)
    PROVE  v = clientTLS
BY DEF Secured, Negotiated

LEMMA LinkedKept == ASSUME IInv, [Next]_vars PROVE Linked'
<1> USE DEF Linked
<1>1. CASE \E cmd \in Commands : ReadCommand(cmd)
  BY <1>1, CommandFields
  DEF ReadCommand, tlsVars, originVars, history, IInv, Verbs, Switching
<1>2. CASE HandleAUTH
  <2>1. \/ UNCHANGED <<clientTLS, late>>
        \/ late' = (late \/ dials > 0)
    BY <1>2 DEF HandleAUTH
  <2>2. cpc = "AUTH" /\ cpc' = "Read" /\ UNCHANGED <<dials, originTLS>>
    BY <1>2 DEF HandleAUTH, Answered, originVars
  <2> QED
    BY <2>1, <2>2 DEF IInv, Types, Switching
<1>3. CASE HandlePROT
  BY <1>3 DEF HandlePROT, Answered, history, IInv, Types, Switching
<1>4. CASE HandlePROXY \/ Forward \/ RefuseUSER
  BY <1>4 DEF HandlePROXY, Forward, RefuseUSER, Answered, tlsVars, originVars,
              history, IInv, Switching
<1>5. CASE DialOrigin
  BY <1>5 DEF DialOrigin, FailSwitch, Switching
<1>6. CASE ReadGreeting
  BY <1>6 DEF ReadGreeting, IInv, Switching
<1>7. CASE SendTLSCommand
  BY <1>7 DEF SendTLSCommand, tlsVars, history, IInv, Switching
<1>8. CASE ReadTLSReply
  <2>1. /\ cpc = "Await" /\ index \in Nat \ {0} /\ index <= Len(previousTLSCommands)
        /\ Len(previousTLSCommands) \in Nat
    <3>1. Len(previousTLSCommands) \in Nat
      BY LenProperties DEF IInv, Types
    <3>2. cpc = "Await"
      BY <1>8 DEF ReadTLSReply
    <3> QED
      BY <3>1, <3>2 DEF IInv, Counters
  <2>2. previousTLSCommands # <<>>
    BY <2>1
  <2>3. UNCHANGED <<clientTLS, dials, late>>
    BY <1>8 DEF ReadTLSReply, tlsVars, history
  <2>4. CASE cpc' = "Replay" /\ index' = index + 1
    <3>1. index' # 1
      BY <2>1, <2>4
    <3>2. lastError' \/ originTLS' = clientTLS
      <4>1. CASE previousTLSCommands[index].verb = "AUTH"
        BY <1>8, <2>1, <2>2, <2>4, <4>1, PinnedVersion DEF ReadTLSReply, FailSwitch, IInv
      <4>2. CASE previousTLSCommands[index].verb # "AUTH"
        <5>1. index # 1 /\ UNCHANGED <<lastError, originTLS>>
          BY <1>8, <2>2, <4>2 DEF ReadTLSReply, IInv, Secured
        <5> QED
          BY <2>1, <5>1 DEF IInv
      <4> QED
        BY <4>1, <4>2
    <3> QED
      BY <2>3, <2>4, <3>1, <3>2 DEF Switching
  <2>5. CASE cpc' = "Over"
    BY <2>5 DEF Switching
  <2>6. CASE UNCHANGED <<cpc, index, lastError, originTLS>>
    BY <2>1, <2>3, <2>6 DEF IInv, Switching
  <2> QED
    BY <1>8, <2>4, <2>5, <2>6 DEF ReadTLSReply, FailSwitch
<1>9. CASE EndReplay
  <2>1. cpc = "Replay" /\ index > Len(previousTLSCommands) /\ index \in Nat
    BY <1>9 DEF EndReplay, IInv, Counters
  <2>2. index = 1 => previousTLSCommands = <<>>
    BY <2>1, EmptySeq DEF IInv, Types
  <2>3. ~lastError => originTLS = clientTLS
    BY <2>1, <2>2 DEF IInv, Secured
  <2> QED
    BY <1>9, <2>3 DEF EndReplay, FailSwitch, tlsVars, originVars, history, Switching
<1>10. CASE ForwardReply \/ OriginReply \/ UNCHANGED vars
  <2>1. UNCHANGED <<cpc, index, lastError, dials, late, originTLS, clientTLS>>
    BY <1>10 DEF ForwardReply, OriginReply, vars, tlsVars, originVars, history
  <2> QED
    BY <2>1 DEF IInv
<1>lost. CASE LineLost \/ ReplyLost
  BY <1>lost, Lost DEF tlsVars, originVars, history, IInv, Switching
<1> QED
  BY <1>1, <1>2, <1>3, <1>4, <1>5, <1>6, <1>7, <1>8, <1>9, <1>10, <1>lost, NextSplits

LEMMA LoginLastKept == ASSUME IInv, [Next]_vars PROVE LoginLast'
<1> USE DEF LoginLast
<1>1. CASE \E cmd \in Commands : ReadCommand(cmd)
  BY <1>1, CommandFields DEF ReadCommand, originVars, IInv, Verbs, Switching
<1>2. CASE HandleAUTH \/ HandlePROT \/ HandlePROXY \/ Forward \/ RefuseUSER
  <2>1. UNCHANGED <<isLoggedin, dials, fromOrigin>> /\ cpc' = "Read"
    BY <1>2 DEF HandleAUTH, HandlePROT, HandlePROXY, Forward, RefuseUSER, Answered, originVars
  <2> QED
    BY <2>1 DEF IInv, Switching
<1>3. CASE DialOrigin
  <2>1. ~isLoggedin' /\ dials' = dials + 1
    BY <1>3 DEF DialOrigin, IInv, Types
  <2>2. dials \in Nat
    BY DEF IInv, Counters
  <2> QED
    BY <2>1, <2>2
<1>4. CASE ReadGreeting \/ SendTLSCommand \/ ReadTLSReply \/ EndReplay
  <2>1. ~isLoggedin' /\ dials' = dials
    <3>1. cpc \in Switching /\ isLoggedin' = isLoggedin /\ dials' = dials
      BY <1>4 DEF ReadGreeting, SendTLSCommand, ReadTLSReply, EndReplay, Switching
    <3> QED
      BY <3>1 DEF IInv, Types
  <2>2. fromOrigin' = fromOrigin \/ (fromOrigin # <<>> /\ fromOrigin' = Tail(fromOrigin))
    <3>1. ReadGreeting => fromOrigin # <<>>
      BY EmptySeq DEF ReadGreeting, IInv, Reading
    <3> QED
      BY <1>4, <3>1 DEF ReadGreeting, SendTLSCommand, ReadTLSReply, EndReplay, originVars
  <2>3. NoLogin(fromOrigin) => NoLogin(fromOrigin')
    BY <2>2, WholeTail DEF IInv, Types
  <2> QED
    BY <2>1, <2>3 DEF IInv
<1>5. CASE ForwardReply
  <2>1. /\ cpc' = "Read" /\ dials' = dials /\ fromOrigin # <<>>
        /\ isLoggedin' = (isLoggedin \/ Head(fromOrigin).code = "230")
        /\ \/ fromOrigin' = Tail(fromOrigin)
           \/ Head(fromOrigin).more /\ fromOrigin' = Tail(Tail(fromOrigin))
    BY <1>5 DEF ForwardReply
  <2>2. NoLogin(fromOrigin) => NoLogin(fromOrigin') /\ Head(fromOrigin).code # "230"
    BY <2>1, WholeTail DEF IInv, Types
  <2>3. dials \in Nat
    BY DEF IInv, Counters
  <2>4. isLoggedin' => dials' > 0
    BY <2>1, <2>2, <2>3 DEF IInv, Types
  <2>5. dials' = 0 => NoLogin(fromOrigin')
    BY <2>1, <2>2 DEF IInv
  <2> QED
    BY <2>1, <2>4, <2>5 DEF Switching
<1>6. CASE OriginReply
  <2>1. dials = 0 => NoLogin(fromOrigin')
    BY <1>6, OriginSays, WholeConcat DEF IInv, Types
  <2> QED
    BY <1>6, <2>1 DEF OriginReply, IInv
<1>7. CASE UNCHANGED vars
  BY <1>7 DEF vars, originVars, IInv
<1>lost. CASE LineLost \/ ReplyLost
  <2>1. UNCHANGED <<isLoggedin, dials, fromOrigin>> /\ cpc' \in {"Read", "Over"}
    BY <1>lost, Lost DEF originVars
  <2> QED
    BY <2>1 DEF IInv, Switching
<1> QED
  BY <1>1, <1>2, <1>3, <1>4, <1>5, <1>6, <1>7, <1>lost, NextSplits

-----------------------------------------------------------------------------
(* Replies in step.                                                        *)

(* One command, one line: what the origin says to it is its answer.        *)
LEMMA OriginAnswers ==
    ASSUME Types, OriginReply, ~setup.longReplies, NEW cmd, cmd = Head(toOrigin)
    PROVE  \E line \in Lines :
             fromOrigin' = fromOrigin \o <<line>> /\ Answers(line, cmd)'
<1> DEFINE Line(code) == [code |-> code, more |-> FALSE]
<1>1. \A code \in Codes : /\ Reply(code) = <<Line(code)>> /\ Line(code) \in Lines
                          /\ Line(code).code = code /\ ~Line(code).more
  BY ReplyIs
<1>2. LongReply("200", setup.longReplies) = <<Line("200")>>
  <2>1. "200" \in Codes /\ setup.longReplies \in BOOLEAN
    BY SetupFields DEF Codes, Types
  <2> QED
    BY <2>1, LongReplyIs
<1> HIDE DEF Line
<1>3. \E code \in Codes :
        /\ fromOrigin' = fromOrigin \o <<Line(code)>>
        /\ \/ cmd.verb = "AUTH" /\ code = "234"
           \/ cmd.verb = "PBSZ" /\ code = "200"
           \/ /\ cmd.verb = "PROT" /\ code = "200"
              /\ cmd.param \in {"C", "P"} /\ originProt' = cmd.param
           \/ cmd.verb \in {"AUTH", "PBSZ", "PROT"} /\ code = "503" /\ refused'
           \/ cmd.verb = "USER" /\ code = "331"
           \/ cmd.verb = "PASS" /\ code \in {"230", "530"}
  BY <1>1, <1>2 DEF OriginReply, Codes
<1> QED
  BY <1>1, <1>3 DEF Answers

LEMMA OriginKeepsStep ==
    ASSUME Types, OriginReply, ~setup.longReplies, NEW cmd, Asked(cmd) \/ Told(cmd)
    PROVE  Told(cmd)' /\ Asked(cmd)
<1>1. toOrigin # <<>> /\ toOrigin' = Tail(toOrigin)
  BY DEF OriginReply
<1>2. toOrigin = <<cmd>> /\ fromOrigin \in {<<>>, <<Complaint>>}
  BY <1>1 DEF Asked, Told
<1>3. Head(toOrigin) = cmd /\ toOrigin' = <<>>
  BY <1>1, <1>2, ShortQueues
<1>4. PICK line \in Lines : /\ fromOrigin' = fromOrigin \o <<line>>
                            /\ Answers(line, cmd)'
  BY <1>3, OriginAnswers
<1>5. fromOrigin' \in {<<line>>, <<Complaint, line>>}
  BY <1>2, <1>4, ShortQueues
<1> QED
  BY <1>2, <1>3, <1>4, <1>5 DEF Told, Asked

(* The next line that pftp reads is the complaint or the answer.           *)
LEMMA ReadsAnswer ==
    ASSUME NEW cmd, Asked(cmd) \/ Told(cmd), fromOrigin # <<>>
    PROVE  \/ /\ Head(fromOrigin) = Complaint
              /\ Asked(cmd) => Tail(fromOrigin) = <<>>
              /\ Told(cmd) => \E line \in Lines : /\ Answers(line, cmd)
                                                  /\ Tail(fromOrigin) = <<line>>
           \/ /\ Told(cmd) /\ Answers(Head(fromOrigin), cmd)
              /\ Head(fromOrigin) # Complaint /\ Tail(fromOrigin) = <<>>
<1>1. \A line : Answers(line, cmd) => line # Complaint
  BY ComplaintIsLine DEF Answers
<1>2. CASE Asked(cmd)
  BY <1>2, ShortQueues DEF Asked, Told
<1>3. CASE Told(cmd)
  <2>1. PICK line \in Lines : /\ Answers(line, cmd)
                              /\ fromOrigin \in {<<line>>, <<Complaint, line>>}
    BY <1>3 DEF Told
  <2>2. ~Asked(cmd)
    BY <1>3, ShortQueues DEF Asked, Told
  <2>3. CASE fromOrigin = <<line>>
    BY <1>1, <1>3, <2>1, <2>3, ShortQueues
  <2>4. CASE fromOrigin = <<Complaint, line>>
    <3>1. Head(fromOrigin) = Complaint /\ Tail(fromOrigin) = <<line>>
      BY <2>4, ShortQueues
    <3> QED
      BY <2>1, <2>2, <3>1
  <2> QED
    BY <2>1, <2>3, <2>4
<1> QED
  BY <1>2, <1>3

LEMMA InStepKept == ASSUME IInv, [Next]_vars PROVE InStep'
<1> USE DEF InStep
<1>a. setup' = setup
  BY Lost, NextSplits
  DEF ReadCommand, HandleAUTH, HandlePROT, HandlePROXY, Forward, RefuseUSER, DialOrigin,
      ReadGreeting, SendTLSCommand, ReadTLSReply, EndReplay, ForwardReply, OriginReply, vars
<1>b. dials \in Nat /\ dials' \in {dials, dials + 1}
  <2>1. dials \in Nat
    BY DEF IInv, Counters
  <2> QED
    BY <2>1, Lost, NextSplits
    DEF ReadCommand, HandleAUTH, HandlePROT, HandlePROXY, Forward, RefuseUSER, DialOrigin,
        ReadGreeting, SendTLSCommand, ReadTLSReply, EndReplay, ForwardReply, OriginReply, vars
<1> SUFFICES ASSUME ~setup.longReplies, setup.longGreeting => dials' = 0 PROVE InStep'
  BY <1>a
<1>c. setup.longGreeting => dials = 0
  BY <1>b
<1> HIDE DEF InStep
<1>d. /\ cpc \in Verbs \cup {"Forward", "Replay"} => Quiet
      /\ cpc = "Read" /\ pending => Asked(command) \/ Told(command)
      /\ cpc = "Read" /\ ~pending => Quiet
      /\ cpc = "Greet" => /\ toOrigin = <<>>
                          /\ fromOrigin \in {Reply("220"), Reply("220") \o <<Complaint>>}
      /\ cpc = "Await" => \/ Asked(previousTLSCommands[index])
                          \/ Told(previousTLSCommands[index])
      /\ cpc \in {"Replay", "Await"} /\ index > 1 /\ fromOrigin # <<>>
           => Head(fromOrigin) # Complaint
  BY <1>c DEF InStep, IInv
<1>1. CASE \E cmd \in Commands : ReadCommand(cmd)
  <2>1. Quiet /\ UNCHANGED <<toOrigin, fromOrigin>> /\ cpc' \in Verbs
    BY <1>1, <1>d, CommandFields DEF ReadCommand, originVars
  <2> QED
    BY <2>1 DEF InStep, Quiet, Verbs
<1>2. CASE HandleAUTH \/ HandlePROXY \/ RefuseUSER
  <2>1. Quiet /\ UNCHANGED <<toOrigin, fromOrigin>>
    BY <1>2, <1>d DEF HandleAUTH, HandlePROXY, RefuseUSER, originVars, Verbs
  <2>2. cpc' = "Read" /\ ~pending'
    BY <1>2 DEF HandleAUTH, HandlePROXY, RefuseUSER, Answered, clientVars, IInv, Reading
  <2> QED
    BY <2>1, <2>2 DEF InStep, Quiet, Verbs
<1>3. CASE HandlePROT
  <2>1. Quiet /\ fromOrigin' = fromOrigin /\ cpc' = "Read" /\ command' = command
    BY <1>3, <1>d DEF HandlePROT, Answered, Verbs
  <2>2. CASE ~pending' /\ toOrigin' = toOrigin
    BY <2>1, <2>2 DEF InStep, Quiet, Verbs
  <2>3. CASE toOrigin' = Append(toOrigin, command)
    <3>1. toOrigin' = <<command>>
      BY <2>1, <2>3, ShortQueues DEF Quiet
    <3>2. Asked(command)'
      BY <2>1, <3>1 DEF Asked, Quiet
    <3>3. pending'
      BY <1>3, <2>1, <2>3, <3>1, ShortQueues DEF HandlePROT, Quiet, IInv, Reading
    <3> QED
      BY <2>1, <3>2, <3>3 DEF InStep, Verbs
  <2> QED
    BY <1>3, <2>2, <2>3 DEF HandlePROT, Answered
<1>4. CASE Forward
  <2>1. /\ Quiet /\ fromOrigin' = fromOrigin /\ cpc' = "Read" /\ command' = command
        /\ pending' /\ toOrigin' = Append(toOrigin, command)
    BY <1>4, <1>d DEF Forward, clientVars, Verbs, IInv, Reading
  <2>2. toOrigin' = <<command>>
    BY <2>1, ShortQueues DEF Quiet
  <2>3. Asked(command)'
    BY <2>1, <2>2 DEF Asked, Quiet
  <2> QED
    BY <2>1, <2>3 DEF InStep, Verbs
<1>5. CASE DialOrigin
  <2>1. dials' = dials + 1
    BY <1>5 DEF DialOrigin
  <2>2. ~setup.longGreeting
    BY <1>b, <2>1
  <2>3. LongReply("220", setup.longGreeting) = Reply("220")
    BY <2>2, SetupFields, LongReplyIs, ReplyIs DEF Codes, IInv, Types
  <2>4. Reply("220") \o <<>> = Reply("220") /\ Reply("500 PROXY") = <<Complaint>>
    <3>1. "220" \in Codes /\ "500 PROXY" \in Codes
      BY DEF Codes
    <3>2. Reply("500 PROXY") = <<Complaint>>
      BY <3>1, ReplyIs DEF Complaint
    <3>3. Reply("220") = <<[code |-> "220", more |-> FALSE]>>
      BY <3>1, ReplyIs
    <3> QED
      BY <3>2, <3>3, ShortQueues
  <2>5. /\ toOrigin' = <<>>
        /\ fromOrigin' \in {Reply("220"), Reply("220") \o <<Complaint>>}
    <3>1. toOrigin' = <<>>
      BY <1>5 DEF DialOrigin
    <3>2. fromOrigin' = Reply("220") \o
                          (IF setup.proxyProtocol /\ ~setup.readsHeader
                           THEN Reply("500 PROXY") ELSE <<>>)
      BY <1>5, <2>3 DEF DialOrigin
    <3>3. CASE setup.proxyProtocol /\ ~setup.readsHeader
      BY <3>1, <3>2, <3>3, <2>4
    <3>4. CASE ~(setup.proxyProtocol /\ ~setup.readsHeader)
      BY <3>1, <3>2, <3>4, <2>4
    <3> QED
      BY <3>3, <3>4
  <2>6. cpc' \in {"Greet", "Over"}
    BY <1>5 DEF DialOrigin, FailSwitch
  <2> QED
    BY <2>5, <2>6 DEF InStep, Verbs
<1>6. CASE ReadGreeting
  <2>1. /\ fromOrigin' = Tail(fromOrigin) /\ toOrigin' = <<>> /\ index' = 1
        /\ fromOrigin \in {Reply("220"), Reply("220") \o <<Complaint>>}
        /\ cpc' = "Replay"
    BY <1>6, <1>d DEF ReadGreeting
  <2>2. fromOrigin' \in {<<>>, <<Complaint>>}
    <3>1. "220" \in Codes
      BY DEF Codes
    <3>2. PICK line : Reply("220") = <<line>>
      BY <3>1, ReplyIs
    <3>3. fromOrigin \in {<<line>>, <<line, Complaint>>}
      BY <2>1, <3>2, ShortQueues
    <3>4. Tail(<<line>>) = <<>> /\ Tail(<<line, Complaint>>) = <<Complaint>>
      BY ShortQueues
    <3> QED
      BY <2>1, <3>3, <3>4
  <2> QED
    BY <2>1, <2>2 DEF InStep, Quiet, Verbs
<1>7. CASE SendTLSCommand
  <2>1. /\ Quiet /\ fromOrigin' = fromOrigin /\ cpc' = "Await" /\ index' = index
        /\ toOrigin' = Append(toOrigin, previousTLSCommands[index])
        /\ previousTLSCommands' = previousTLSCommands /\ cpc = "Replay"
    BY <1>7, <1>d DEF SendTLSCommand, tlsVars
  <2>2. toOrigin' = <<previousTLSCommands[index]>>
    BY <2>1, ShortQueues DEF Quiet
  <2>3. Asked(previousTLSCommands[index])'
    BY <2>1, <2>2 DEF Asked, Quiet
  <2> QED
    BY <1>d, <2>1, <2>3 DEF InStep, Verbs
<1>8. CASE ReadTLSReply
  <2> DEFINE cmd == previousTLSCommands[index]
  <2>1. /\ fromOrigin # <<>> /\ fromOrigin' = Tail(fromOrigin) /\ toOrigin' = toOrigin
        /\ cpc = "Await" /\ previousTLSCommands' = previousTLSCommands
    BY <1>8 DEF ReadTLSReply, tlsVars
  <2>2. Asked(cmd) \/ Told(cmd)
    BY <1>d, <2>1
  <2>3. index > 1 \/ (cmd.verb = "AUTH" /\ index = 1)
    <3>1. index = 1 \/ index > 1
      BY <2>1 DEF IInv, Counters
    <3>2. Len(previousTLSCommands) \in Nat /\ index <= Len(previousTLSCommands)
      BY <2>1, LenProperties DEF IInv, Counters, Types
    <3>3. index \in Nat
      BY <3>2 DEF IInv, Counters
    <3>4. previousTLSCommands # <<>>
      BY <3>1, <3>2, <3>3, EmptySeq
    <3> QED
      BY <3>1, <3>4 DEF IInv, Secured
  <2>4. CASE Head(fromOrigin) = Complaint
    <3>1. cmd.verb = "AUTH" /\ index = 1
      BY <1>d, <2>1, <2>3, <2>4
    <3>2. UNCHANGED <<cpc, index>>
      BY <1>8, <2>4, <3>1, ComplaintIsLine DEF ReadTLSReply
    <3>3. Asked(cmd)' \/ Told(cmd)'
      <4>1. CASE Asked(cmd)
        BY <2>1, <2>4, <3>2, <4>1, ReadsAnswer DEF Asked
      <4>2. CASE Told(cmd)
        <5>1. Told(cmd) /\ Tail(fromOrigin) # <<>>
          BY <2>1, <2>2, <2>4, <4>2, ShortQueues, ReadsAnswer DEF Answers, Complaint
        <5>2. PICK line \in Lines : Answers(line, cmd) /\ fromOrigin' = <<line>>
          BY <2>1, <2>4, <4>2, <5>1, ReadsAnswer
        <5>3. Answers(line, cmd)'
          BY <1>8, <2>1, <3>2, <5>2 DEF Answers, ReadTLSReply, history
        <5> QED
          BY <2>1, <3>2, <4>2, <5>2, <5>3 DEF Told
      <4> QED
        BY <2>2, <4>1, <4>2
    <3> QED
      BY <2>1, <3>1, <3>2, <3>3 DEF InStep, Verbs
  <2>5. CASE Head(fromOrigin) # Complaint
    <3>1. Told(cmd) /\ Tail(fromOrigin) = <<>> /\ Answers(Head(fromOrigin), cmd)
      BY <2>1, <2>2, <2>5, ReadsAnswer
    <3>2. Quiet'
      BY <2>1, <3>1 DEF Quiet, Told
    <3>3. Head(fromOrigin).code # "500 PROXY"
      BY <3>1 DEF Answers
    <3>4. cpc' \in {"Replay", "Over"}
      BY <1>8, <3>3 DEF ReadTLSReply, FailSwitch
    <3> QED
      BY <2>1, <3>1, <3>2, <3>4 DEF InStep, Verbs
  <2> QED
    BY <2>4, <2>5
<1>9. CASE EndReplay
  <2>1. Quiet /\ UNCHANGED <<toOrigin, fromOrigin>> /\ cpc' \in {"Forward", "Over"}
    BY <1>9, <1>d DEF EndReplay, FailSwitch, originVars
  <2> QED
    BY <2>1 DEF InStep, Quiet, Verbs
<1>10. CASE ForwardReply
  <2>1. /\ cpc = "Read" /\ fromOrigin # <<>> /\ cpc' = "Read" /\ toOrigin' = toOrigin
        /\ command' = command
    BY <1>10 DEF ForwardReply
  <2>2. CASE pending
    <3>1. Asked(command) \/ Told(command)
      BY <1>d, <2>1, <2>2
    <3>2. ~Head(fromOrigin).more
      BY <2>1, <3>1, ReadsAnswer, ComplaintIsLine DEF Answers
    <3>3. fromOrigin' = Tail(fromOrigin)
      BY <1>10, <3>2 DEF ForwardReply
    <3>4. CASE Head(fromOrigin) = Complaint
      <4>1. pending' = pending
        BY <1>10, <3>4, ComplaintIsLine DEF ForwardReply
      <4>2. CASE Asked(command)
        <5>1. Asked(command)'
          BY <2>1, <3>3, <3>4, <4>2, ReadsAnswer DEF Asked
        <5> QED
          BY <2>1, <2>2, <4>1, <5>1 DEF InStep, Verbs
      <4>3. CASE Told(command)
        <5>1. PICK line \in Lines : Answers(line, command) /\ fromOrigin' = <<line>>
          BY <2>1, <3>3, <3>4, <4>3, ReadsAnswer DEF Answers, Complaint
        <5>2. Answers(line, command)'
          BY <1>10, <2>1, <5>1 DEF Answers, ForwardReply, history
        <5>3. Told(command)'
          BY <2>1, <4>3, <5>1, <5>2 DEF Told
        <5> QED
          BY <2>1, <2>2, <4>1, <5>3 DEF InStep, Verbs
      <4> QED
        BY <3>1, <4>2, <4>3
    <3>5. CASE Head(fromOrigin) # Complaint
      <4>1. Told(command) /\ Tail(fromOrigin) = <<>> /\ Answers(Head(fromOrigin), command)
        BY <2>1, <3>1, <3>5, ReadsAnswer
      <4>2. Quiet'
        BY <2>1, <3>3, <4>1 DEF Quiet, Told
      <4>3. ~pending'
        BY <1>10, <4>1 DEF ForwardReply, Answers
      <4> QED
        BY <2>1, <4>2, <4>3 DEF InStep, Verbs
    <3> QED
      BY <3>4, <3>5
  <2>3. CASE ~pending
    <3>1. toOrigin = <<>> /\ fromOrigin = <<Complaint>>
      BY <1>d, <2>1, <2>3 DEF Quiet
    <3>2. Head(fromOrigin) = Complaint /\ Tail(fromOrigin) = <<>>
      BY <3>1, ShortQueues
    <3>3. fromOrigin' = <<>> /\ pending' = pending
      BY <1>10, <3>2, ComplaintIsLine DEF ForwardReply
    <3> QED
      BY <2>1, <2>3, <3>1, <3>3 DEF InStep, Quiet, Verbs
  <2> QED
    BY <2>2, <2>3
<1>11. CASE OriginReply
  <2>1. /\ toOrigin # <<>> /\ UNCHANGED <<cpc, command, index, previousTLSCommands, pending>>
        /\ Types
    BY <1>11 DEF OriginReply, tlsVars, clientVars, IInv
  <2>2. CASE cpc = "Read" /\ pending
    <3>1. Told(command)'
      BY <1>11, <1>d, <2>1, <2>2, OriginKeepsStep
    <3> QED
      BY <2>1, <2>2, <3>1 DEF InStep, Verbs
  <2>3. CASE cpc = "Await"
    <3> DEFINE cmd == previousTLSCommands[index]
    <3>1. Told(cmd)' /\ Asked(cmd)
      BY <1>11, <1>d, <2>1, <2>3, OriginKeepsStep
    <3>2. index' > 1 => Head(fromOrigin') # Complaint
      <4>1. index > 1 => fromOrigin = <<>>
        BY <1>d, <2>3, <3>1, ShortQueues DEF Asked
      <4>2. PICK line \in Lines : fromOrigin' = fromOrigin \o <<line>> /\ ~line.more
                                  /\ line # Complaint
        BY <1>11, <2>1, OriginAnswers, ComplaintIsLine DEF Answers
      <4> QED
        BY <2>1, <4>1, <4>2, ShortQueues
    <3> QED
      BY <2>1, <2>3, <3>1, <3>2 DEF InStep, Verbs
  <2>4. CASE cpc = "Over"
    BY <2>1, <2>4 DEF InStep, Verbs
  <2> QED
    BY <1>d, <2>1, <2>2, <2>3, <2>4 DEF Quiet, IInv, Types, Places, Switching
<1>12. CASE UNCHANGED vars
  BY <1>12, <1>d DEF InStep, vars, tlsVars, originVars, clientVars, history, Quiet, Asked, Told,
                     Answers
<1>lost. CASE LineLost \/ ReplyLost
  <2>1. Quiet /\ UNCHANGED <<toOrigin, fromOrigin>>
    BY <1>d, <1>lost, Lost DEF originVars, Verbs
  <2>2. cpc' \in {"Read", "Over"} /\ ~pending'
    BY <1>lost, Lost
  <2> QED
    BY <2>1, <2>2 DEF InStep, Quiet, Verbs
<1> QED
  BY <1>1, <1>2, <1>3, <1>4, <1>5, <1>6, <1>7, <1>8, <1>9, <1>10, <1>11, <1>12,
     <1>lost, NextSplits

-----------------------------------------------------------------------------
(* Long greetings.                                                         *)

LEMMA GreetedKept == ASSUME IInv, [Next]_vars PROVE Greeted'
<1>a. setup' = setup
  BY Lost, NextSplits
  DEF ReadCommand, HandleAUTH, HandlePROT, HandlePROXY, Forward, RefuseUSER, DialOrigin,
      ReadGreeting, SendTLSCommand, ReadTLSReply, EndReplay, ForwardReply, OriginReply, vars
<1> SUFFICES ASSUME setup.longGreeting PROVE Greeted'
  BY <1>a DEF Greeted
<1>b. /\ cpc = "Greet" => /\ Len(fromOrigin) > 1 /\ fromOrigin[2].code = "220"
                          /\ NoPromise(fromOrigin)
      /\ cpc = "Replay" /\ previousTLSCommands = <<>> => NoPromise(fromOrigin)
      /\ cpc \in {"Replay", "Await"} /\ previousTLSCommands # <<>> =>
           IF index = 1 THEN Len(fromOrigin) > 0 /\ fromOrigin[1].code = "220"
           ELSE lastError
      /\ cpc \notin Switching \cup {"Over"} /\ dials > 0 /\ ~late
           => previousTLSCommands = <<>> /\ NoPromise(fromOrigin)
  BY DEF Greeted, IInv
<1>c. Whole(fromOrigin)
  BY DEF IInv, Types
<1>d. /\ Len(previousTLSCommands) \in Nat
      /\ previousTLSCommands = <<>> <=> Len(previousTLSCommands) = 0
  BY LenProperties, EmptySeq DEF IInv, Types
<1>e. index \in Nat /\ (cpc \in {"Replay", "Await"} => index >= 1)
  BY <1>d DEF IInv, Counters
<1>1. CASE \E cmd \in Commands : ReadCommand(cmd)
  BY <1>1, <1>b, CommandFields
  DEF ReadCommand, tlsVars, originVars, history, Verbs, Switching, Greeted
<1>2. CASE HandleAUTH \/ HandlePROT
  <2>1. /\ cpc \in {"AUTH", "PBSZ", "PROT"} /\ cpc' = "Read"
        /\ UNCHANGED <<dials, fromOrigin>>
        /\ \/ UNCHANGED <<previousTLSCommands, late>>
           \/ late' = (late \/ dials > 0)
    BY <1>2 DEF HandleAUTH, HandlePROT, Answered, originVars, history
  <2>2. dials \in Nat /\ late \in BOOLEAN
    BY DEF IInv, Counters, Types
  <2>3. dials' > 0 /\ ~late' => previousTLSCommands' = <<>> /\ NoPromise(fromOrigin')
    <3> HAVE dials' > 0 /\ ~late'
    <3>1. dials > 0 /\ ~late /\ UNCHANGED previousTLSCommands
      BY <2>1, <2>2
    <3>2. cpc \notin Switching \cup {"Over"}
      BY <2>1 DEF Switching
    <3> QED
      BY <1>b, <2>1, <3>1, <3>2
  <2> QED
    BY <2>1, <2>3 DEF Greeted, Switching
<1>3. CASE HandlePROXY \/ Forward \/ RefuseUSER
  <2>1. /\ cpc \in Verbs \cup {"Forward"} /\ cpc' = "Read"
        /\ UNCHANGED <<dials, fromOrigin, previousTLSCommands, late>>
    BY <1>3 DEF HandlePROXY, Forward, RefuseUSER, Answered, tlsVars, originVars, history, Verbs
  <2> QED
    BY <1>b, <2>1 DEF Greeted, Switching, Verbs
<1>4. CASE DialOrigin
  <2> DEFINE greeting == LongReply("220", TRUE)
         first    == [code |-> "220", more |-> TRUE]
         last     == [code |-> "220", more |-> FALSE]
  <2>0. "220" \in Codes /\ "500 PROXY" \in Codes /\ TRUE \in BOOLEAN
    BY DEF Codes
  <2>1. Whole(greeting) /\ Len(greeting) > 1 /\ greeting[2].code = "220"
    <3>1. greeting = <<first, last>> /\ last.code = "220"
      BY <2>0, LongReplyIs
    <3>2. Whole(greeting)
      BY <2>0, WholeLongReply
    <3> HIDE DEF greeting, first, last
    <3> QED
      BY <3>1, <3>2
  <2>2. NoPromise(greeting)
    BY <2>0, WholeLongReply DEF NoPromise
  <2>3. Whole(Reply("500 PROXY")) /\ NoPromise(Reply("500 PROXY"))
    <3>1. /\ Whole(Reply("500 PROXY")) /\ Len(Reply("500 PROXY")) = 1
          /\ Reply("500 PROXY")[1].code = "500 PROXY"
      BY <2>0, WholeReply
    <3>2. \A i \in 1 .. 1 : i = 1
      OBVIOUS
    <3> QED
      BY <3>1, <3>2 DEF NoPromise
  <2>4. Whole(<<>>) /\ NoPromise(<<>>)
    BY DEF Whole, NoPromise
  <2>5. setup.longGreeting = TRUE
    BY SetupFields DEF IInv, Types
  <2>6. \/ fromOrigin' = greeting \o Reply("500 PROXY")
        \/ fromOrigin' = greeting \o <<>>
    BY <1>4, <2>5 DEF DialOrigin
  <2> HIDE DEF greeting
  <2>7. Len(fromOrigin') > 1 /\ fromOrigin'[2].code = "220" /\ NoPromise(fromOrigin')
    <3>1. ASSUME NEW rest, Whole(rest), NoPromise(rest), fromOrigin' = greeting \o rest
          PROVE  Len(fromOrigin') > 1 /\ fromOrigin'[2].code = "220" /\ NoPromise(fromOrigin')
      <4>1. /\ NoPromise(greeting \o rest) /\ Len(greeting \o rest) > 1
            /\ (greeting \o rest)[2] = greeting[2]
        BY <2>1, <2>2, <3>1, WholeConcat
      <4> QED
        BY <2>1, <3>1, <4>1
    <3> QED
      BY <2>3, <2>4, <2>6, <3>1
  <2>8. cpc' \in {"Greet", "Over"}
    BY <1>4 DEF DialOrigin, FailSwitch
  <2> QED
    BY <2>7, <2>8 DEF Greeted, Switching
<1>5. CASE ReadGreeting
  <2>1. /\ cpc = "Greet" /\ cpc' = "Replay" /\ index' = 1
        /\ fromOrigin' = Tail(fromOrigin) /\ previousTLSCommands' = previousTLSCommands
    BY <1>5 DEF ReadGreeting, tlsVars
  <2>2. fromOrigin # <<>>
    BY <1>b, <2>1, EmptySeq
  <2>3. /\ Len(fromOrigin') > 0 /\ fromOrigin'[1].code = "220"
        /\ NoPromise(fromOrigin')
    BY <1>b, <1>c, <2>1, <2>2, WholeTail
  <2> QED
    BY <2>1, <2>3 DEF Greeted, Switching
<1>6. CASE SendTLSCommand
  <2>1. /\ cpc = "Replay" /\ cpc' = "Await" /\ index <= Len(previousTLSCommands)
        /\ UNCHANGED <<index, lastError, fromOrigin, previousTLSCommands>>
    BY <1>6 DEF SendTLSCommand, tlsVars
  <2> QED
    BY <1>b, <1>d, <1>e, <2>1 DEF Greeted, Switching
<1>7. CASE ReadTLSReply
  <2>1. /\ cpc = "Await" /\ fromOrigin # <<>> /\ previousTLSCommands' = previousTLSCommands
    BY <1>7 DEF ReadTLSReply, tlsVars
  <2>2. previousTLSCommands # <<>>
    BY <1>d, <1>e, <2>1 DEF IInv, Counters
  <2>3. CASE index = 1
    <3>1. previousTLSCommands[index].verb = "AUTH"
      BY <2>2, <2>3 DEF IInv, Secured
    <3>2. Head(fromOrigin).code = "220"
      BY <1>b, <1>c, <2>1, <2>2, <2>3, WholeTail
    <3>3. cpc' = "Replay" /\ index' = index + 1 /\ lastError' = TRUE
      BY <1>7, <3>1, <3>2 DEF ReadTLSReply
    <3> QED
      BY <2>1, <2>2, <2>3, <3>3 DEF Greeted, Switching
  <2>4. CASE index # 1
    <3>1. lastError
      BY <1>b, <2>1, <2>2, <2>4
    <3>2. lastError'
      BY <1>7, <3>1 DEF ReadTLSReply
    <3>3. \/ cpc' \in {"Await", "Over"} /\ index' = index
          \/ cpc' = "Replay" /\ index' = index + 1
      BY <1>7 DEF ReadTLSReply, FailSwitch
    <3>4. index' # 1 /\ cpc' \in {"Await", "Over", "Replay"}
      BY <1>e, <2>1, <2>4, <3>3
    <3> QED
      BY <2>1, <2>2, <3>2, <3>4 DEF Greeted, Switching
  <2> QED
    BY <2>3, <2>4
<1>8. CASE EndReplay
  <2>1. /\ cpc = "Replay" /\ index > Len(previousTLSCommands)
        /\ UNCHANGED <<fromOrigin, previousTLSCommands>>
        /\ IF lastError THEN cpc' = "Over" ELSE cpc' = "Forward"
    BY <1>8 DEF EndReplay, FailSwitch, tlsVars, originVars
  <2>2. previousTLSCommands = <<>> \/ lastError
    BY <1>b, <1>d, <1>e, <2>1
  <2>3. CASE cpc' = "Over"
    BY <2>3 DEF Greeted, Switching
  <2>4. CASE cpc' = "Forward"
    BY <1>b, <2>1, <2>2, <2>4 DEF Greeted, Switching
  <2> QED
    BY <2>1, <2>3, <2>4
<1>9. CASE ForwardReply
  <2>1. /\ cpc = "Read" /\ cpc' = "Read" /\ fromOrigin # <<>>
        /\ UNCHANGED <<dials, late, previousTLSCommands>>
        /\ \/ fromOrigin' = Tail(fromOrigin)
           \/ Head(fromOrigin).more /\ fromOrigin' = Tail(Tail(fromOrigin))
    BY <1>9 DEF ForwardReply, tlsVars, history
  <2>2. NoPromise(fromOrigin) => NoPromise(fromOrigin')
    BY <1>c, <2>1, WholeTail
  <2> QED
    BY <1>b, <2>1, <2>2 DEF Greeted, Switching
<1>10. CASE OriginReply
  <2>1. UNCHANGED <<cpc, dials, late, previousTLSCommands, index, lastError>>
    BY <1>10 DEF OriginReply, tlsVars
  <2>2. PICK answer : /\ fromOrigin' = fromOrigin \o answer /\ Whole(answer)
                      /\ originTLS = NoTLS => NoPromise(answer)
    BY <1>10, OriginSays DEF IInv
  <2>3. /\ Len(fromOrigin) > 0 => Len(fromOrigin') > 0 /\ fromOrigin'[1] = fromOrigin[1]
        /\ Len(fromOrigin) > 1 => Len(fromOrigin') > 1 /\ fromOrigin'[2] = fromOrigin[2]
        /\ NoPromise(fromOrigin) /\ originTLS = NoTLS => NoPromise(fromOrigin')
    BY <1>c, <2>2, WholeConcat
  <2>4. previousTLSCommands = <<>> /\ cpc = "Replay" => originTLS = NoTLS
    <3>1. previousTLSCommands = <<>> /\ cpc = "Replay" => index = 1
      BY <1>d, <1>e DEF IInv, Counters
    <3> QED
      BY <3>1 DEF IInv, Linked
  <2>5. cpc \notin Switching \cup {"Over"} /\ dials > 0 /\ ~late => originTLS = NoTLS
    BY <1>b DEF IInv, Secured, Linked
  <2>6. cpc = "Greet" => originTLS = NoTLS
    BY DEF IInv, Linked
  <2> QED
    BY <1>b, <2>1, <2>3, <2>4, <2>5, <2>6 DEF Greeted, Switching
<1>11. CASE UNCHANGED vars
  BY <1>11, <1>b DEF vars, tlsVars, originVars, history, Greeted
<1>lost. CASE LineLost \/ ReplyLost
  BY <1>b, <1>lost, Lost DEF tlsVars, originVars, history, Switching, Greeted
<1> QED
  BY <1>1, <1>2, <1>3, <1>4, <1>5, <1>6, <1>7, <1>8, <1>9, <1>10, <1>11, <1>lost, NextSplits

-----------------------------------------------------------------------------
(* The level of protection.                                                *)

LEMMA OneLevel ==
    ASSUME NEW lines, NEW n \in Nat, NEW a, NEW b,
           Level(lines, n, a), Level(lines, n, b)
    PROVE  a = b
<1>1. CASE \A i \in 1 .. n : lines[i].verb # "PROT"
  BY <1>1 DEF Level
<1>2. CASE \E i \in 1 .. n : lines[i].verb = "PROT"
  <2>1. PICK i \in 1 .. n : /\ lines[i].verb = "PROT" /\ lines[i].param = a
                            /\ \A k \in i + 1 .. n : lines[k].verb # "PROT"
    BY <1>2 DEF Level
  <2>2. PICK j \in 1 .. n : /\ lines[j].verb = "PROT" /\ lines[j].param = b
                            /\ \A k \in j + 1 .. n : lines[k].verb # "PROT"
    BY <1>2 DEF Level
  <2>3. i = j
    BY <2>1, <2>2
  <2> QED
    BY <2>1, <2>2, <2>3
<1> QED
  BY <1>1, <1>2

LEMMA NoLines ==
    ASSUME NEW lines
    PROVE  Levels(lines, 0) /\ Level(lines, 0, "C")
BY DEF Levels, Level

LEMMA OneMoreLine ==
    ASSUME NEW lines, NEW n \in Nat \ {0}
    PROVE  /\ Levels(lines, n) => Levels(lines, n - 1)
           /\ Levels(lines, n - 1)
              /\ (lines[n].verb = "PROT" => lines[n].param \in {"C", "P"})
                => Levels(lines, n)
           /\ Levels(lines, n) /\ lines[n].verb = "PROT" => lines[n].param \in {"C", "P"}
           /\ lines[n].verb = "PROT" => Level(lines, n, lines[n].param)
           /\ \A level : Level(lines, n - 1, level) /\ lines[n].verb # "PROT"
                           => Level(lines, n, level)
<1>1. \A i \in 1 .. n : i \in 1 .. n - 1 \/ i = n
  OBVIOUS
<1>2. n \in 1 .. n /\ 1 .. n - 1 \subseteq 1 .. n /\ n + 1 .. n = {}
  OBVIOUS
<1>3. lines[n].verb = "PROT" => Level(lines, n, lines[n].param)
  BY <1>2 DEF Level
<1>4. ASSUME NEW level, Level(lines, n - 1, level), lines[n].verb # "PROT"
      PROVE  Level(lines, n, level)
  <2>1. CASE level = "C" /\ \A i \in 1 .. n - 1 : lines[i].verb # "PROT"
    BY <1>1, <1>4, <2>1 DEF Level
  <2>2. CASE \E i \in 1 .. n - 1 :
               /\ lines[i].verb = "PROT" /\ lines[i].param = level
               /\ \A j \in i + 1 .. n - 1 : lines[j].verb # "PROT"
    <3>1. PICK i \in 1 .. n - 1 :
            /\ lines[i].verb = "PROT" /\ lines[i].param = level
            /\ \A j \in i + 1 .. n - 1 : lines[j].verb # "PROT"
      BY <2>2
    <3>2. \A j \in i + 1 .. n : j \in i + 1 .. n - 1 \/ j = n
      OBVIOUS
    <3> QED
      BY <1>2, <1>4, <3>1, <3>2 DEF Level
  <2> QED
    BY <1>4, <2>1, <2>2 DEF Level
<1>5. Levels(lines, n) => Levels(lines, n - 1)
  BY <1>2 DEF Levels
<1>6. Levels(lines, n - 1) /\ (lines[n].verb = "PROT" => lines[n].param \in {"C", "P"})
        => Levels(lines, n)
  BY <1>1 DEF Levels
<1>7. Levels(lines, n) /\ lines[n].verb = "PROT" => lines[n].param \in {"C", "P"}
  BY <1>2 DEF Levels
<1> QED
  BY <1>3, <1>4, <1>5, <1>6, <1>7

(* A line that is kept.                                                    *)
LEMMA KeptLine ==
    ASSUME NEW lines \in Seq(Commands), NEW cmd \in Commands, NEW kept,
           kept = Append(lines, cmd)
    PROVE  /\ Levels(kept, Len(kept)) => Levels(lines, Len(lines))
           /\ cmd.verb # "PROT" =>
                \A level : Level(lines, Len(lines), level) => Level(kept, Len(kept), level)
           /\ cmd.verb = "PROT" => Level(kept, Len(kept), cmd.param)
           /\ Levels(kept, Len(kept)) /\ cmd.verb = "PROT" => cmd.param \in {"C", "P"}
<1> DEFINE n == Len(lines)
<1>1. /\ n \in Nat /\ Len(kept) = n + 1 /\ kept[n + 1] = cmd
      /\ \A i \in 1 .. n : kept[i] = lines[i]
  BY AppendProperties, LenProperties
<1>2. Levels(kept, n) => Levels(lines, n)
  BY <1>1 DEF Levels
<1>3. ASSUME NEW level, Level(lines, n, level) PROVE Level(kept, n, level)
  <2>1. \A i \in 1 .. n : i + 1 .. n \subseteq 1 .. n
    BY <1>1
  <2> QED
    BY <1>1, <1>3, <2>1 DEF Level
<1>4. PICK m \in Nat \ {0} : m = n + 1 /\ m - 1 = n
  BY <1>1
<1> HIDE DEF n
<1>5. /\ Levels(kept, m) => Levels(kept, n)
      /\ Levels(kept, m) /\ cmd.verb = "PROT" => cmd.param \in {"C", "P"}
      /\ cmd.verb = "PROT" => Level(kept, m, cmd.param)
      /\ \A level : Level(kept, n, level) /\ cmd.verb # "PROT" => Level(kept, m, level)
  <2>1. kept[m] = cmd
    BY <1>1, <1>4
  <2>2. /\ Levels(kept, m) => Levels(kept, m - 1)
        /\ Levels(kept, m) /\ kept[m].verb = "PROT" => kept[m].param \in {"C", "P"}
        /\ kept[m].verb = "PROT" => Level(kept, m, kept[m].param)
        /\ \A level : Level(kept, m - 1, level) /\ kept[m].verb # "PROT"
                        => Level(kept, m, level)
    BY OneMoreLine
  <2>3. m - 1 = n
    BY <1>4
  <2> QED
    BY <2>1, <2>2, <2>3
<1>6. Len(kept) = m
  BY <1>1, <1>4
<1> QED
  BY <1>2, <1>3, <1>5, <1>6 DEF n

(* The origin's level changes with a PROT inside TLS only.                 *)
LEMMA OriginLevel ==
    ASSUME OriginReply, NEW cmd, cmd = Head(toOrigin)
    PROVE  \/ originProt' = originProt
           \/ cmd.verb = "PROT" /\ originTLS # NoTLS
BY DEF OriginReply

(* Who may still say 200 to a client of an origin with a long greeting.    *)
LEMMA LongGreetingQuiet ==
    ASSUME IInv, setup.longGreeting, cpc \notin Switching \cup {"Over"}, dials > 0, ~late
    PROVE  /\ ~controlInTLS /\ originTLS = NoTLS
           /\ fromOrigin # <<>> => Head(fromOrigin).code # "200"
<1>1. previousTLSCommands = <<>> /\ NoPromise(fromOrigin)
  BY DEF IInv, Greeted
<1>2. clientTLS = NoTLS /\ ~controlInTLS
  BY <1>1 DEF IInv, Secured
<1>3. originTLS = NoTLS
  BY <1>2 DEF IInv, Linked
<1>4. fromOrigin # <<>> => Head(fromOrigin).code # "200"
  BY <1>1, WholeTail DEF IInv, Types
<1> QED
  BY <1>2, <1>3, <1>4

LEMMA AgreementKept ==
    ASSUME IInv, [Next]_vars, Agreement, Replayed, ~setup.longReplies, ~late', ~refused'
    PROVE  Agreement'
<1>a. dials \in Nat
  BY DEF IInv, Counters
<1>b. /\ Asking => isLoggedin /\ controlInTLS /\ (transferInTLS <=> param = "P")
      /\ ~Asking => (transferInTLS <=> clientProt = "P")
      /\ ~Asking /\ dials > 0 /\ cpc \notin Switching \cup {"Over"}
           => originProt = clientProt
  BY DEF Agreement
<1>c. late \in BOOLEAN /\ refused \in BOOLEAN
  BY DEF IInv, Types
<1>1. CASE \E cmd \in Commands : ReadCommand(cmd)
  <2>1. PICK cmd \in Commands : ReadCommand(cmd)
    BY <1>1
  <2>2. /\ cpc = "Read" /\ ~pending /\ cpc' \in Verbs
        /\ UNCHANGED <<transferInTLS, clientProt, originProt, dials>>
    BY <2>1, CommandFields DEF ReadCommand, tlsVars, originVars
  <2>3. ~Asking /\ ~Asking'
    BY <2>2 DEF Asking, Verbs
  <2> QED
    BY <1>b, <2>2, <2>3 DEF Agreement, Switching
<1>2. CASE HandleAUTH \/ HandlePROXY \/ RefuseUSER \/ Forward
  <2>1. /\ cpc \in Verbs \cup {"Forward"} /\ cpc' = "Read" /\ command' = command
        /\ UNCHANGED <<transferInTLS, clientProt, originProt, dials>>
    BY <1>2 DEF HandleAUTH, HandlePROXY, RefuseUSER, Forward, Answered, tlsVars,
                clientVars, originVars, Verbs
  <2>2. ~Asking /\ ~Asking'
    <3>1. ~Asking
      BY <2>1 DEF Asking, Verbs
    <3>2. HandleAUTH \/ RefuseUSER => ~pending'
      BY DEF HandleAUTH, RefuseUSER, Answered
    <3>3. HandlePROXY \/ Forward => command.verb # "PROT"
      BY DEF HandlePROXY, Forward, IInv, Reading, Verbs
    <3> QED
      BY <1>2, <2>1, <3>1, <3>2, <3>3 DEF Asking
  <2> QED
    BY <1>b, <2>1, <2>2 DEF Agreement, Switching, Verbs
<1>3. CASE HandlePROT
  <2>1. /\ cpc \in {"PBSZ", "PROT"} /\ cpc' = "Read" /\ cpc = command.verb
        /\ UNCHANGED <<command, param, originProt, dials, isLoggedin, controlInTLS>>
        /\ transferInTLS' = IF cpc = "PROT" /\ controlInTLS THEN param = "P" ELSE transferInTLS
        /\ pending
    BY <1>3 DEF HandlePROT, Answered, Verbs, IInv, Reading
  <2>2. ~Asking
    BY <2>1 DEF Asking
  <2>3. CASE ~controlInTLS
    <3>1. ~pending' /\ clientProt' = clientProt
      BY <1>3, <2>3 DEF HandlePROT, Answered
    <3> QED
      BY <1>b, <2>1, <2>2, <2>3, <3>1 DEF Agreement, Asking, Switching
  <2>4. CASE controlInTLS /\ ~isLoggedin
    <3>1. ~pending' /\ late' = (late \/ dials > 0)
      BY <1>3, <2>4 DEF HandlePROT, Answered
    <3>2. ~(dials' > 0)
      BY <2>1, <3>1
    <3>3. CASE cpc = "PROT"
      <4>1. param \in {"C", "P"} /\ clientProt' = param
        BY <1>3, <2>4, <3>3 DEF HandlePROT
      <4> QED
        BY <2>1, <2>4, <3>1, <3>2, <3>3, <4>1 DEF Agreement, Asking
    <3>4. CASE cpc # "PROT"
      <4>1. clientProt' = clientProt
        BY <1>3, <2>4, <3>4 DEF HandlePROT
      <4> QED
        BY <1>b, <2>1, <2>2, <3>1, <3>2, <3>4, <4>1 DEF Agreement, Asking
    <3> QED
      BY <3>3, <3>4
  <2>5. CASE controlInTLS /\ isLoggedin
    <3>1. pending' = pending /\ clientProt' = clientProt
      BY <1>3, <2>5 DEF HandlePROT
    <3>2. CASE cpc = "PROT"
      BY <2>1, <2>5, <3>1, <3>2 DEF Agreement, Asking
    <3>3. CASE cpc # "PROT"
      BY <1>b, <2>1, <2>2, <2>5, <3>1, <3>3 DEF Agreement, Asking, Switching
    <3> QED
      BY <3>2, <3>3
  <2> QED
    BY <2>3, <2>4, <2>5
<1>4. CASE DialOrigin \/ ReadGreeting \/ SendTLSCommand \/ ReadTLSReply
  <2>1. /\ cpc # "Read" /\ cpc' \in Switching \cup {"Over"}
        /\ UNCHANGED <<transferInTLS, clientProt>>
    BY <1>4 DEF DialOrigin, ReadGreeting, SendTLSCommand, ReadTLSReply, FailSwitch,
                tlsVars, clientVars, Switching
  <2>2. ~Asking /\ ~Asking'
    BY <2>1 DEF Asking, Switching
  <2> QED
    BY <1>b, <2>1, <2>2 DEF Agreement
<1>5. CASE EndReplay
  <2> DEFINE lines == previousTLSCommands
             n == Len(lines)
  <2>1. /\ cpc = "Replay" /\ index > n /\ cpc' \in {"Over", "Forward"}
        /\ UNCHANGED <<transferInTLS, clientProt, originProt, dials>>
        /\ lastError => cpc' = "Over"
    BY <1>5 DEF EndReplay, FailSwitch, tlsVars, originVars
  <2>2. ~Asking /\ ~Asking'
    BY <2>1 DEF Asking
  <2>3. n \in Nat /\ (n = 0 <=> lines = <<>>)
    BY LenProperties, EmptySeq DEF IInv, Types
  <2>4. index = n + 1
    BY <2>1, <2>3 DEF IInv, Counters
  <2>5. CASE setup.longGreeting /\ lines # <<>>
    <3>1. lastError
      BY <2>1, <2>3, <2>4, <2>5 DEF IInv, Greeted
    <3> QED
      BY <1>b, <2>1, <2>2, <3>1 DEF Agreement
  <2>6. CASE ~(setup.longGreeting /\ lines # <<>>)
    <3>1. Levels(lines, index - 1) /\ Level(lines, index - 1, originProt)
      BY <2>1, <2>6 DEF Replayed
    <3>2. index - 1 = n
      BY <2>3, <2>4
    <3>3. Level(lines, n, clientProt)
      BY <2>1, <3>1, <3>2 DEF Replayed, IInv, LoginLast, Switching
    <3>4. originProt = clientProt
      BY <2>3, <3>1, <3>2, <3>3, OneLevel
    <3> QED
      BY <1>b, <2>1, <2>2, <3>4 DEF Agreement
  <2> QED
    BY <2>5, <2>6
<1>6. CASE ForwardReply
  <2>1. /\ cpc = "Read" /\ fromOrigin # <<>> /\ cpc' = "Read"
        /\ UNCHANGED <<command, param, transferInTLS, originProt, dials, controlInTLS,
                       late, refused>>
        /\ isLoggedin => isLoggedin'
    BY <1>6 DEF ForwardReply, tlsVars, history
  <2>2. CASE UNCHANGED <<pending, clientProt>>
    BY <1>b, <2>1, <2>2 DEF Agreement, Asking
  <2>3. CASE setup.longGreeting /\ dials > 0
    <3>1. ~controlInTLS /\ Head(fromOrigin).code # "200"
      BY <2>1, <2>3, LongGreetingQuiet DEF Switching
    <3>2. clientProt' = clientProt /\ (pending' => pending)
      BY <1>6, <3>1 DEF ForwardReply
    <3>3. ~Asking /\ ~Asking'
      BY <1>b, <2>1, <3>1, <3>2 DEF Asking
    <3> QED
      BY <1>b, <2>1, <3>2, <3>3 DEF Agreement
  <2>4. CASE /\ ~(setup.longGreeting /\ dials > 0)
             /\ ~UNCHANGED <<pending, clientProt>>
    <3>1. IF pending THEN Asked(command) \/ Told(command) ELSE Quiet
      BY <1>a, <2>1, <2>4 DEF IInv, InStep
    <3>2. Head(fromOrigin) # Complaint
      BY <1>6, <2>4, ComplaintIsLine DEF ForwardReply
    <3>3. pending
      BY <2>1, <3>1, <3>2, ShortQueues DEF Quiet
    <3>4. Answers(Head(fromOrigin), command)
      BY <2>1, <3>1, <3>2, <3>3, ReadsAnswer
    <3>5. Head(fromOrigin).code # "500 PROXY"
      BY <3>4 DEF Answers
    <3>6. /\ ~pending'
          /\ clientProt' = IF Head(fromOrigin).code = "200" /\ PromisedLevel
                           THEN command.param ELSE clientProt
      BY <1>6, <3>5 DEF ForwardReply
    <3>7. ~Asking'
      BY <3>6 DEF Asking
    <3>8. CASE command.verb = "PROT"
      <4>1. Asking
        BY <2>1, <3>3, <3>8 DEF Asking
      <4>2. /\ Head(fromOrigin).code = "200" /\ command.param \in {"C", "P"}
            /\ originProt = command.param
        BY <2>1, <3>4, <3>8 DEF Answers
      <4>3. clientProt' = command.param /\ param = command.param
        BY <3>6, <3>8, <4>2 DEF PromisedLevel, IInv, Reading
      <4> QED
        BY <1>b, <2>1, <3>7, <4>1, <4>2, <4>3 DEF Agreement
    <3>9. CASE command.verb # "PROT"
      <4>1. ~Asking /\ clientProt' = clientProt
        BY <3>6, <3>9 DEF Asking, PromisedLevel
      <4> QED
        BY <1>b, <2>1, <3>7, <4>1 DEF Agreement
    <3> QED
      BY <3>8, <3>9
  <2> QED
    BY <2>2, <2>3, <2>4
<1>7. CASE OriginReply
  <2>1. /\ toOrigin # <<>>
        /\ UNCHANGED <<cpc, command, param, transferInTLS, clientProt, dials, pending,
                       isLoggedin, controlInTLS, late>>
    BY <1>7 DEF OriginReply, tlsVars, clientVars
  <2>2. ~Asking /\ dials > 0 /\ cpc \notin Switching \cup {"Over"}
          => originProt' = originProt
    <3> HAVE ~Asking /\ dials > 0 /\ cpc \notin Switching \cup {"Over"}
    <3>1. CASE setup.longGreeting
      BY <1>7, <2>1, <3>1, LongGreetingQuiet, OriginLevel
    <3>2. CASE ~setup.longGreeting
      <4>1. /\ cpc \in Verbs \cup {"Forward"} => Quiet
            /\ cpc = "Read" => IF pending THEN Asked(command) \/ Told(command) ELSE Quiet
        BY <3>2 DEF IInv, InStep
      <4>2. cpc = "Read" /\ pending
        BY <2>1, <4>1 DEF Quiet, IInv, Types, Places
      <4>3. toOrigin = <<command>> /\ command.verb # "PROT"
        BY <2>1, <4>1, <4>2 DEF Asked, Told, Asking
      <4>4. Head(toOrigin) = command
        BY <4>3, ShortQueues
      <4> QED
        BY <1>7, <4>3, <4>4, OriginLevel
    <3> QED
      BY <3>1, <3>2
  <2> QED
    BY <1>b, <2>1, <2>2 DEF Agreement, Asking
<1>8. CASE UNCHANGED vars
  BY <1>8, <1>b DEF vars, tlsVars, originVars, clientVars, history, Agreement, Asking
<1>lost. CASE LineLost \/ ReplyLost
  <2>1. /\ cpc \notin Switching \cup {"Read", "Over"} /\ cpc' \in {"Read", "Over"}
        /\ UNCHANGED <<transferInTLS, clientProt, originProt, dials>> /\ ~pending'
    BY <1>lost, Lost DEF tlsVars, originVars, Switching
  <2> QED
    BY <1>b, <2>1 DEF Agreement, Asking, Switching
<1> QED
  BY <1>1, <1>2, <1>3, <1>4, <1>5, <1>6, <1>7, <1>8, <1>lost, NextSplits

LEMMA ReplayedKept ==
    ASSUME IInv, [Next]_vars, Agreement, Replayed, ~setup.longReplies, ~late', ~refused'
    PROVE  Replayed'
<1> DEFINE lines == previousTLSCommands
           done  == IF cpc = "Await" /\ toOrigin = <<>> THEN index ELSE index - 1
<1>a. /\ ~isLoggedin /\ Levels(lines, Len(lines)) => Level(lines, Len(lines), clientProt)
      /\ cpc = "Greet" => originProt = "C"
      /\ cpc \in {"Replay", "Await"} /\ (setup.longGreeting => lines = <<>>)
           => Levels(lines, done) /\ Level(lines, done, originProt)
  BY DEF Replayed
<1>b. lines \in Seq(Commands) /\ Len(lines) \in Nat /\ (lines = <<>> <=> Len(lines) = 0)
  BY LenProperties, EmptySeq DEF IInv, Types
<1>c. /\ index \in Nat
      /\ cpc \in {"Replay", "Await"} => index >= 1 /\ ~isLoggedin
      /\ cpc = "Await" => index <= Len(lines) /\ lines # <<>>
  <2>1. index \in Nat
    BY <1>b DEF IInv, Counters
  <2> QED
    BY <1>b, <2>1 DEF IInv, Counters, LoginLast, Switching
<1>1. CASE \/ \E cmd \in Commands : ReadCommand(cmd)
           \/ HandlePROXY \/ RefuseUSER \/ Forward \/ DialOrigin \/ EndReplay
  <2>1. UNCHANGED <<previousTLSCommands, isLoggedin, clientProt>>
    BY <1>1 DEF ReadCommand, HandlePROXY, RefuseUSER, Forward, DialOrigin, EndReplay,
                tlsVars, clientVars
  <2>2. \/ cpc' \notin {"Greet", "Replay", "Await"}
        \/ cpc' = "Greet" /\ originProt' = "C"
    BY <1>1, CommandFields
    DEF ReadCommand, HandlePROXY, RefuseUSER, Forward, DialOrigin, EndReplay,
        Answered, FailSwitch, Verbs
  <2> QED
    BY <1>a, <2>1, <2>2 DEF Replayed
<1>2. CASE HandleAUTH \/ HandlePROT
  <2>1. cpc' = "Read" /\ isLoggedin' = isLoggedin /\ cpc = command.verb
    BY <1>2 DEF HandleAUTH, HandlePROT, Answered, IInv, Reading, Verbs
  <2>2. CASE UNCHANGED <<previousTLSCommands, clientProt>>
    BY <1>a, <2>1, <2>2 DEF Replayed
  <2>3. CASE isLoggedin
    BY <2>1, <2>3 DEF Replayed
  <2>4. CASE ~isLoggedin /\ ~UNCHANGED <<previousTLSCommands, clientProt>>
    <3> DEFINE kept == Append(lines, command)
    <3>1. /\ lines' = kept
          /\ \/ cpc # "PROT" /\ clientProt' = clientProt
             \/ cpc = "PROT" /\ clientProt' = param /\ param \in {"C", "P"}
      BY <1>2, <2>4 DEF HandleAUTH, HandlePROT, Remembered
    <3>2. command \in Commands
      BY DEF IInv, Types
    <3> HIDE DEF lines
    <3>3. /\ Levels(kept, Len(kept)) => Levels(lines, Len(lines))
          /\ command.verb # "PROT" =>
               \A level : Level(lines, Len(lines), level) => Level(kept, Len(kept), level)
          /\ command.verb = "PROT" => Level(kept, Len(kept), command.param)
          /\ Levels(kept, Len(kept)) /\ command.verb = "PROT" => command.param \in {"C", "P"}
      BY <1>b, <3>2, KeptLine
    <3> HIDE DEF kept
    <3>4. CASE cpc # "PROT"
      <4>1. Levels(kept, Len(kept)) => Level(kept, Len(kept), clientProt')
        BY <1>a, <2>1, <2>4, <3>1, <3>3, <3>4
      <4> QED
        BY <2>1, <3>1, <4>1 DEF Replayed, lines
    <3>5. CASE cpc = "PROT"
      <4>1. Levels(kept, Len(kept)) => Level(kept, Len(kept), clientProt')
        BY <2>1, <3>1, <3>3, <3>5 DEF IInv, Reading
      <4> QED
        BY <2>1, <3>1, <4>1 DEF Replayed, lines
    <3> QED
      BY <3>4, <3>5
  <2> QED
    BY <2>2, <2>3, <2>4
<1>3. CASE ReadGreeting
  <2>1. /\ cpc = "Greet" /\ cpc' = "Replay" /\ index' = 1
        /\ UNCHANGED <<previousTLSCommands, isLoggedin, clientProt, originProt>>
    BY <1>3 DEF ReadGreeting, tlsVars, clientVars
  <2>2. index' - 1 = 0
    BY <2>1
  <2>3. Levels(lines, 0) /\ Level(lines, 0, "C")
    BY NoLines
  <2> QED
    BY <1>a, <2>1, <2>2, <2>3 DEF Replayed
<1>4. CASE SendTLSCommand
  <2>1. /\ cpc = "Replay" /\ cpc' = "Await"
        /\ UNCHANGED <<setup, previousTLSCommands, isLoggedin, clientProt, originProt, index>>
        /\ toOrigin' = Append(toOrigin, previousTLSCommands[index])
    BY <1>4 DEF SendTLSCommand, tlsVars, clientVars
  <2>2. toOrigin' # <<>>
    <3>1. index \in 1 .. Len(lines)
      BY <1>4, <1>b, <1>c DEF SendTLSCommand
    <3>2. previousTLSCommands[index] \in Commands /\ toOrigin \in Seq(Commands)
      BY <1>b, <3>1, ElementOfSeq DEF IInv, Types
    <3> QED
      BY <2>1, <3>2, AppendProperties
  <2> QED
    BY <1>a, <2>1, <2>2 DEF Replayed
<1>5. CASE ReadTLSReply
  <2> DEFINE cmd == previousTLSCommands[index]
  <2>1. /\ cpc = "Await" /\ fromOrigin # <<>>
        /\ UNCHANGED <<setup, previousTLSCommands, isLoggedin, clientProt, originProt, toOrigin>>
        /\ \/ cpc' = "Over"
           \/ cpc' = "Replay" /\ index' = index + 1
           \/ UNCHANGED <<cpc, index>>
    BY <1>5 DEF ReadTLSReply, FailSwitch, tlsVars
  <2>2. CASE cpc' = "Over" \/ UNCHANGED <<cpc, index>>
    BY <1>a, <2>1, <2>2 DEF Replayed
  <2>3. CASE setup.longGreeting
    BY <1>a, <1>c, <2>1, <2>2, <2>3 DEF Replayed
  <2>4. CASE ~setup.longGreeting /\ cpc' = "Replay" /\ index' = index + 1
    <3>1. Asked(cmd) \/ Told(cmd)
      BY <2>1, <2>4 DEF IInv, InStep
    <3>2. Head(fromOrigin) # Complaint
      <4> SUFFICES ASSUME Head(fromOrigin) = Complaint PROVE FALSE
        OBVIOUS
      <4>1. index = 1
        BY <1>c, <2>1, <2>4 DEF IInv, InStep
      <4>2. cmd.verb = "AUTH"
        BY <1>c, <2>1, <4>1 DEF IInv, Secured
      <4> QED
        BY <1>5, <1>c, <2>4, <4>2, ComplaintIsLine DEF ReadTLSReply
    <3>3. toOrigin = <<>>
      BY <2>1, <3>1, <3>2, ReadsAnswer DEF Told
    <3>4. index' - 1 = done
      BY <1>c, <2>1, <2>4, <3>3
    <3> QED
      BY <1>a, <2>1, <2>4, <3>4 DEF Replayed
  <2> QED
    BY <2>1, <2>2, <2>3, <2>4
<1>6. CASE ForwardReply
  <2>1. /\ cpc = "Read" /\ cpc' = "Read" /\ previousTLSCommands' = previousTLSCommands
        /\ fromOrigin # <<>> /\ (isLoggedin => isLoggedin')
        /\ UNCHANGED <<dials, late>>
    BY <1>6 DEF ForwardReply, tlsVars, history
  <2>2. CASE clientProt' = clientProt \/ isLoggedin
    BY <1>a, <2>1, <2>2 DEF Replayed
  <2>3. CASE clientProt' # clientProt /\ ~isLoggedin
    <3>1. /\ Head(fromOrigin).code = "200" /\ command.verb = "PROT"
          /\ Head(fromOrigin).code # "500 PROXY"
      BY <1>6, <2>3 DEF ForwardReply, PromisedLevel
    <3>2. ~setup.longGreeting \/ dials = 0
      <4> SUFFICES ASSUME setup.longGreeting, dials # 0 PROVE FALSE
        OBVIOUS
      <4>1. dials > 0 /\ ~late
        BY <2>1 DEF IInv, Counters, Types
      <4> QED
        BY <2>1, <3>1, <4>1, LongGreetingQuiet DEF Switching
    <3>3. IF pending THEN Asked(command) \/ Told(command) ELSE Quiet
      BY <2>1, <3>2 DEF IInv, InStep
    <3>4. pending
      BY <2>1, <3>1, <3>3, ShortQueues, ComplaintIsLine DEF Quiet
    <3> QED
      BY <2>1, <2>3, <3>1, <3>4 DEF Agreement, Asking
  <2> QED
    BY <2>2, <2>3
<1>7. CASE OriginReply
  <2> DEFINE cmd == previousTLSCommands[index]
  <2>1. /\ toOrigin # <<>>
        /\ UNCHANGED <<setup, cpc, previousTLSCommands, isLoggedin, clientProt, index>>
    BY <1>7 DEF OriginReply, tlsVars, clientVars
  <2>2. cpc = "Greet" => originProt' = originProt
    BY <1>7, OriginLevel DEF IInv, Linked
  <2>3. CASE cpc = "Replay" /\ (setup.longGreeting => lines = <<>>)
    <3>1. setup.longGreeting
      BY <2>1, <2>3 DEF IInv, InStep, Quiet
    <3>2. index = 1
      BY <1>b, <1>c, <2>3, <3>1 DEF IInv, Counters
    <3>3. originProt' = originProt
      BY <1>7, <2>3, <3>2, OriginLevel DEF IInv, Linked
    <3> QED
      BY <1>a, <2>1, <2>3, <3>3 DEF Replayed
  <2>4. CASE cpc = "Await" /\ (setup.longGreeting => lines = <<>>)
    <3>1. Asked(cmd) \/ Told(cmd)
      BY <1>c, <2>4 DEF IInv, InStep
    <3>2. Told(cmd)' /\ Asked(cmd)
      <4>1. Types /\ ~setup.longReplies
        BY DEF IInv
      <4> QED
        BY <1>7, <2>1, <3>1, <4>1, OriginKeepsStep
    <3>3. toOrigin' = <<>> /\ Head(toOrigin) = cmd
      BY <3>2, ShortQueues DEF Told, Asked
    <3>4. Levels(lines, index - 1) /\ Level(lines, index - 1, originProt)
      BY <1>a, <2>1, <2>4
    <3>5. index \in Nat \ {0}
      BY <1>c, <2>4
    <3>6. CASE cmd.verb = "PROT"
      <4>1. cmd.param \in {"C", "P"} /\ originProt' = cmd.param
        BY <2>1, <3>2, <3>6 DEF Told, Answers
      <4>2. Levels(lines, index) /\ Level(lines, index, originProt')
        BY <3>4, <3>5, <3>6, <4>1, OneMoreLine
      <4> QED
        BY <1>a, <2>1, <2>4, <3>3, <4>2 DEF Replayed
    <3>7. CASE cmd.verb # "PROT"
      <4>1. originProt' = originProt
        BY <1>7, <3>3, <3>7, OriginLevel
      <4>2. Levels(lines, index) /\ Level(lines, index, originProt)
        BY <3>4, <3>5, <3>7, OneMoreLine
      <4> QED
        BY <1>a, <2>1, <2>4, <3>3, <4>1, <4>2 DEF Replayed
    <3> QED
      BY <3>6, <3>7
  <2>5. CASE /\ cpc \in {"Replay", "Await"} => ~(setup.longGreeting => lines = <<>>)
    BY <1>a, <2>1, <2>2, <2>5 DEF Replayed
  <2> QED
    BY <2>3, <2>4, <2>5
<1>8. CASE UNCHANGED vars
  BY <1>8, <1>a DEF vars, tlsVars, originVars, clientVars, history, Replayed
<1>lost. CASE LineLost \/ ReplyLost
  <2>1. UNCHANGED <<previousTLSCommands, isLoggedin, clientProt>>
        /\ cpc' \in {"Read", "Over"}
    BY <1>lost, Lost DEF tlsVars
  <2> QED
    BY <1>a, <2>1 DEF Replayed
<1> QED
  BY <1>1, <1>2, <1>3, <1>4, <1>5, <1>6, <1>7, <1>8, <1>lost, NextSplits

LEMMA ProtectedKept == ASSUME IInv, [Next]_vars PROVE Protected'
<1> SUFFICES ASSUME ~late', ~refused', ~setup'.longReplies PROVE (Agreement /\ Replayed)'
  BY DEF Protected
<1>1. setup' = setup
  BY Lost, NextSplits
  DEF ReadCommand, HandleAUTH, HandlePROT, HandlePROXY, Forward, RefuseUSER, DialOrigin,
      ReadGreeting, SendTLSCommand, ReadTLSReply, EndReplay, ForwardReply, OriginReply, vars
<1>2. ~late /\ ~refused
  <2>1. CASE HandleAUTH \/ HandlePROT \/ OriginReply
    <3>1. late' = late \/ late' = (late \/ dials > 0)
      BY <2>1 DEF HandleAUTH, HandlePROT, OriginReply, history
    <3>2. refused => refused'
      BY <2>1 DEF HandleAUTH, HandlePROT, OriginReply, history
    <3>3. late \in BOOLEAN
      BY DEF IInv, Types
    <3> QED
      BY <3>1, <3>2, <3>3
  <2>2. CASE UNCHANGED <<late, refused>>
    BY <2>2
  <2> QED
    BY <2>1, <2>2, Lost, NextSplits
    DEF ReadCommand, HandlePROXY, Forward, RefuseUSER, DialOrigin, ReadGreeting,
        SendTLSCommand, ReadTLSReply, EndReplay, ForwardReply, vars, history
<1>3. Agreement /\ Replayed /\ ~setup.longReplies
  BY <1>1, <1>2 DEF IInv, Protected
<1> QED
  BY <1>3, AgreementKept, ReplayedKept

-----------------------------------------------------------------------------
LEMMA Inductive == Spec => []IInv
<1>1. IInv /\ [Next]_vars => IInv'
  BY TypesKept, ReadingKept, CountersKept, SecuredKept, LinkedKept, LoginLastKept,
     InStepKept, GreetedKept, ProtectedKept DEF IInv
<1> QED
  BY InitInv, <1>1, PTL DEF Spec

(* The fields keep their types: getTLSProtocol gives no name a version     *)
(* below TLS 1.0, and the replay never leaves previousTLSCommands.         *)
THEOREM TypeCorrect == Spec => []TypeOK
<1>1. IInv => TypeOK
  BY ElementOfSeq, LenProperties DEF IInv, Types, Counters, TypeOK
<1> QED
  BY Inductive, <1>1, PTL

(* Whatever versions client and origins offer, the two control links of a  *)
(* session with an origin are both in TLS of one version or both in the    *)
(* clear, unless the client asked for TLS after the switch.                *)
THEOREM LinksAlike == Spec => []LinksAgree
<1>1. IInv => LinksAgree
  BY DEF IInv, Linked, LinksAgree, Switching
<1> QED
  BY Inductive, <1>1, PTL

(* After any number of AUTH, PBSZ, PROT and USER commands, the client,     *)
(* pftp and the origin mean the same protection of data connections,       *)
(* unless one of them was refused or came too late.                        *)
THEOREM ProtectionAgreed == Spec => []ProtectionAgrees
<1>1. IInv => ProtectionAgrees
  BY DEF IInv, Protected, Agreement, Asking, LoginLast, ProtectionAgrees, Switching
<1> QED
  BY Inductive, <1>1, PTL

(* However many lines the replay repeats to a new origin, and wherever it  *)
(* complains about the header, no reply to one of them is left for the     *)
(* client.                                                                 *)
THEOREM ReplayUsesUpReplies == Spec => []ReplayInStep
<1>1. IInv => ReplayInStep
  <2> SUFFICES ASSUME IInv, cpc = "Read", ~pending, ~setup.longGreeting, ~setup.longReplies,
                      NEW i \in DOMAIN fromOrigin
               PROVE  fromOrigin[i].code = "500 PROXY"
    BY DEF ReplayInStep
  <2>1. fromOrigin \in {<<>>, <<Complaint>>}
    BY DEF IInv, InStep, Quiet
  <2> HIDE DEF Complaint
  <2>2. fromOrigin = <<Complaint>> /\ i = 1
    BY <2>1
  <2> QED
    BY <2>2, ComplaintIsLine
<1> QED
  BY Inductive, <1>1, PTL
=============================================================================
