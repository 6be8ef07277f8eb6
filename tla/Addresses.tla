------------------------------ MODULE Addresses ------------------------------
(***************************************************************************)
(* The pure part of pftp's data channel: reading and writing the addresses *)
(* of PORT, EPRT, 227 and 229 lines, choosing a listen port, and checking  *)
(* the configuration that governs both.                                    *)
(*                                                                         *)
(* An IPv4 address is its four octets.  A field of a line is the integer   *)
(* it spells, or NotANumber when it spells none.  Integers are not cut to  *)
(* 64 bits: fields that long do not occur here.                            *)
(***************************************************************************)
EXTENDS Integers, Sequences

CONSTANTS
    NotANumber,     \* a field strconv.Atoi refuses
    IPv6            \* stands for the IPv6 addresses (one that maps an IPv4
                    \* address is that IPv4 address to net.ParseIP)

ASSUME FieldsAssumption == NotANumber \notin Int /\ IPv6 \notin [1 .. 4 -> Int]

IPv4    == [1 .. 4 -> 0 .. 255]
MaxPort == 65535
Ports   == 1 .. MaxPort
NoIP    == <<>>                         \* the empty string

(* net.ParseIP(ip) # nil.                                                  *)
IsIP(ip) == ip \in IPv4 \/ ip = IPv6

(* strconv.Atoi with its error ignored.                                    *)
Atoi(field) == IF field \in Int THEN field ELSE 0

NoPlace          == [ip |-> NoIP, port |-> 0]
InvalidAddress   == [NoPlace EXCEPT !.port = -1]
UnknownProtocol  == [NoPlace EXCEPT !.port = -2]
IsError(place)   == place.port < 0

-----------------------------------------------------------------------------
(* Reading addresses.                                                      *)

(* h1,h2,h3,h4,p1,p2 of a PORT command or a 227 reply.  p1 and p2 are only *)
(* checked together: 0,21 and -1,277 are the same port.                    *)
parseLineToAddr(fields) ==
    LET ip   == [i \in 1 .. 4 |-> fields[i]]
        port == 256 * Atoi(fields[5]) + Atoi(fields[6])
    IN  IF Len(fields) = 6 /\ ip \in IPv4 /\ port \in Ports
        THEN [ip |-> ip, port |-> port]
        ELSE InvalidAddress

(* |protocol|ip|port| of an EPRT command: the protocol and the kind of the *)
(* address are not compared.                                               *)
parseEPRTtoAddr(fields) ==
    IF Len(fields) # 3 \/ fields[3] \notin Ports THEN InvalidAddress
    ELSE IF fields[1] \notin {1, 2} THEN UnknownProtocol
    ELSE IF IsIP(fields[2]) THEN [ip |-> fields[2], port |-> fields[3]]
    ELSE InvalidAddress

(* Public means dialled as announced; no IPv6 address is.                  *)
isPublicIP(ip) ==
    /\ ip \in IPv4
    /\ ip[1] \notin {10, 127}
    /\ ~(ip[1] = 172 /\ ip[2] \in 16 .. 31)
    /\ ~(ip[1] = 192 /\ ip[2] = 168)
    /\ ~(ip[1] = 169 /\ ip[2] = 254)
    /\ ~(ip[1] = 224 /\ ip[2] = 0 /\ ip[3] = 0)

(* What parsePORTcommand, parseEPRTcommand and parsePASVresponse make of   *)
(* the parsed address: an error leaves no port, and the peer's own address.*)
Trusted(place, originalRemoteIP) ==
    [ip   |-> IF isPublicIP(place.ip) THEN place.ip ELSE originalRemoteIP,
     port |-> IF IsError(place) THEN 0 ELSE place.port]

-----------------------------------------------------------------------------
(* Writing addresses: the PORT line to the origin, the 227 to the client.  *)

(* Mutant of AddrFields: quotient and remainder of the port are swapped.   *)
AddrFieldsSwapped(ip, port) ==
    <<ip[1], ip[2], ip[3], ip[4], port % 256, port \div 256>>

AddrFields(ip, port) ==
    <<ip[1], ip[2], ip[3], ip[4], port \div 256, port % 256>>

-----------------------------------------------------------------------------
(* The data port range: a sequence of the fields between the dashes.       *)

dataPortRangeValidation(range) ==
    \/ range = <<>>
    \/ /\ Len(range) = 2
       /\ range[1] \in Ports /\ range[2] \in Ports
       /\ range[1] <= range[2]

(* min + rand.Intn(max - min): the last port of a range is never chosen.   *)
(* Without a range the kernel chooses.                                     *)
getListenPort(range, ephemeral) ==
    IF range = <<>> THEN ephemeral
    ELSE IF range[1] = range[2] THEN {range[1]}
    ELSE range[1] .. range[2] - 1

(* Which side of a transfer pftp listens on, by the client's command and   *)
(* the configured TransferMode.                                            *)
checkNeedListen(clientMode, originMode, isClient) ==
    IF isClient THEN clientMode \in {"PASV", "EPSV"}
    ELSE \/ originMode \in {"PORT", "EPRT"}
         \/ originMode = "CLIENT" /\ clientMode \in {"PORT", "EPRT"}

-----------------------------------------------------------------------------
(* The configuration.                                                      *)

CanonicalMode ==
    [mode \in {"PORT", "ACTIVE", "PASV", "PASSIVE", "EPSV", "CLIENT"} |->
        CASE mode = "ACTIVE"  -> "PORT"
          [] mode = "PASSIVE" -> "PASV"
          [] OTHER            -> mode]

(* The fields that data connections depend on, where the file is silent.   *)
defaultConfig ==
    [DataPortRange |-> <<>>, MasqueradeIP |-> NoIP, TransferMode |-> "CLIENT",
     IgnorePassiveIP |-> FALSE]

IsValidConfig(c) ==
    /\ c.MasqueradeIP = NoIP \/ IsIP(c.MasqueradeIP)
    /\ c.TransferMode \in DOMAIN CanonicalMode

(* A bad port range is dropped, anything else that is bad is an error.     *)
validateConfig(c) ==
    [c EXCEPT !.DataPortRange = IF dataPortRangeValidation(@) THEN @ ELSE <<>>,
              !.TransferMode  = CanonicalMode[@]]

=============================================================================
