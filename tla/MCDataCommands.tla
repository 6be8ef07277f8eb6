--------------------------- MODULE MCDataCommands ---------------------------
(* Values for the model checker: a range that crosses a multiple of 256,   *)
(* a range of one port, and one that is dropped; addresses on both sides   *)
(* of isPublicIP.                                                          *)
EXTENDS DataCommands

MCPftpIP   == <<203, 0, 113, 1>>
MCClientIP == <<198, 51, 100, 7>>
MCOriginIP == <<192, 0, 2, 9>>
Private    == <<172, 31, 0, 5>>
Elsewhere  == <<172, 32, 0, 5>>

MCClientNames == {MCClientIP, Private, IPv6}
MCOriginNames == {Private, Elsewhere}
MCEphemeral   == {40000}

Raw(range, mode, ignore) ==
    [defaultConfig EXCEPT !.DataPortRange = range, !.TransferMode = mode,
                          !.IgnorePassiveIP = ignore]

Patient(raw, wordedSo, held) ==
    [raw |-> raw, patient |-> TRUE, wording |-> wordedSo, busy |-> held]
Pipelined(raw) ==
    [raw |-> raw, patient |-> FALSE, wording |-> TRUE, busy |-> {}]

(* "AUTO" and a junk masquerade IP are refused: no session starts.         *)
MCSetups ==
    {Patient(Raw(<<255, 258>>, "CLIENT", FALSE), TRUE, {256}),
     Patient(Raw(<<257, 257>>, "CLIENT", TRUE), FALSE, {}),
     Patient(Raw(<<255, 258>>, "ACTIVE", FALSE), TRUE, {}),
     Patient(Raw(<<255, 257>>, "ACTIVE", FALSE), FALSE, {}),
     Patient(Raw(<<9, 8>>, "PASSIVE", TRUE), TRUE, {}),
     Patient(Raw(<<255, 258>>, "PASSIVE", FALSE), TRUE, {}),
     Patient(Raw(<<NotANumber>>, "EPSV", FALSE), TRUE, {}),
     Patient(Raw(<<>>, "AUTO", FALSE), TRUE, {}),
     Patient([defaultConfig EXCEPT !.MasqueradeIP = NotANumber],
             TRUE, {}),
     Pipelined(Raw(<<257, 257>>, "CLIENT", FALSE)),
     Pipelined(Raw(<<256, 258>>, "PORT", FALSE))}
=============================================================================
