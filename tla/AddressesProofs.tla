-------------------------- MODULE AddressesProofs --------------------------
(***************************************************************************)
(* For every address, port and range: what pftp writes into a PORT line or *)
(* a 227 reply is read back by its own parser; no line makes it dial a     *)
(* port that is none, or a private address; and whatever data port range a *)
(* configuration asks for, the ports that are listened on lie inside it.   *)
(***************************************************************************)
EXTENDS Addresses, TLAPS

(* An address of the type is four octets.                                  *)
LEMMA Octets ==
    ASSUME NEW ip \in IPv4
    PROVE  /\ \A i \in 1 .. 4 : ip[i] \in 0 .. 255
           /\ ip = [i \in 1 .. 4 |-> ip[i]]
BY DEF IPv4

(* A port is 256 times its quotient plus its remainder.                    *)
LEMMA PortSplits ==
    ASSUME NEW port \in Ports
    PROVE  /\ port \div 256 \in Int /\ port % 256 \in Int
           /\ 256 * (port \div 256) + (port % 256) = port
<1>1. port \in Int
  BY DEF Ports, MaxPort
<1> QED
  BY <1>1

(* The fields of the line that sendToOrigin and the reply reader write are *)
(* read back by parseLineToAddr as the address and port they stand for:    *)
(* pftp's peers, and pftp itself behind another pftp, dial where it        *)
(* listens.                                                                *)
THEOREM WrittenIsRead ==
    ASSUME NEW ip \in IPv4, NEW port \in Ports
    PROVE  parseLineToAddr(AddrFields(ip, port)) = [ip |-> ip, port |-> port]
<1> DEFINE fields == AddrFields(ip, port)
<1>1. Len(fields) = 6 /\ fields[5] = port \div 256 /\ fields[6] = port % 256
  BY DEF AddrFields
<1>2. [i \in 1 .. 4 |-> fields[i]] = ip
  <2>1. \A i \in 1 .. 4 : fields[i] = ip[i]
    <3>1. fields[1] = ip[1] /\ fields[2] = ip[2] /\ fields[3] = ip[3] /\ fields[4] = ip[4]
      BY DEF AddrFields
    <3> QED
      BY <3>1
  <2> HIDE DEF fields
  <2>2. [i \in 1 .. 4 |-> fields[i]] = [i \in 1 .. 4 |-> ip[i]]
    BY <2>1
  <2> QED
    BY <2>2, Octets
<1>3. 256 * Atoi(fields[5]) + Atoi(fields[6]) = port
  BY <1>1, PortSplits DEF Atoi
<1> HIDE DEF fields
<1>4. parseLineToAddr(fields) = [ip |-> ip, port |-> port]
  BY <1>1, <1>2, <1>3 DEF parseLineToAddr
<1> QED
  BY <1>4 DEF fields

(* Whatever the fields of a PORT, EPRT or 227 line are, a handler is left  *)
(* with a port that can be dialled or none, and the address is a public    *)
(* IPv4 address or the peer's own: no line sends pftp to a private or a    *)
(* loopback host of its network.                                           *)
THEOREM NamedPlaceIsSafe ==
    ASSUME NEW fields, NEW own,
           NEW place \in {parseLineToAddr(fields), parseEPRTtoAddr(fields)}
    PROVE  /\ Trusted(place, own).port \in Ports \cup {0}
           /\ Trusted(place, own).ip = own \/ isPublicIP(Trusted(place, own).ip)
<1>1. IsError(InvalidAddress) /\ IsError(UnknownProtocol)
  BY DEF IsError, InvalidAddress, UnknownProtocol, NoPlace
<1>2. ~IsError(parseLineToAddr(fields)) => parseLineToAddr(fields).port \in Ports
  BY <1>1 DEF parseLineToAddr
<1>3. ~IsError(parseEPRTtoAddr(fields)) => parseEPRTtoAddr(fields).port \in Ports
  BY <1>1 DEF parseEPRTtoAddr
<1>4. ~IsError(place) => place.port \in Ports
  BY <1>2, <1>3
<1> QED
  BY <1>4 DEF Trusted

(* The ports between two ports are ports.                                  *)
LEMMA PortsBetween ==
    ASSUME NEW first \in Ports, NEW last \in Ports
    PROVE  first .. last \subseteq Ports
<1>1. MaxPort \in Int
  BY DEF MaxPort
<1> QED
  BY <1>1 DEF Ports

(* The ports that getListenPort may return for a range that validateConfig *)
(* let pass are ports of the range, at least one, and the range's end is   *)
(* not among them unless it is its only port.                              *)
THEOREM ListenPortInRange ==
    ASSUME NEW range \in Seq(Int), NEW ephemeral,
           dataPortRangeValidation(range), range # <<>>
    PROVE  /\ getListenPort(range, ephemeral) # {}
           /\ getListenPort(range, ephemeral) \subseteq range[1] .. range[2]
           /\ getListenPort(range, ephemeral) \subseteq Ports
           /\ range[2] \in getListenPort(range, ephemeral) <=> range[1] = range[2]
<1> DEFINE min == range[1]
           max == range[2]
           ports == getListenPort(range, ephemeral)
<1>1. min \in Ports /\ max \in Ports /\ min <= max
  <2>1. /\ Len(range) = 2
        /\ range[1] \in Ports /\ range[2] \in Ports
        /\ range[1] <= range[2]
    BY Zenon DEF dataPortRangeValidation
  <2> QED
    BY <2>1, Zenon
<1>2. ports = IF min = max THEN {min} ELSE min .. max - 1
  BY DEF getListenPort
<1> HIDE DEF min, max, ports
<1>3. ports # {} /\ ports \subseteq min .. max /\ (max \in ports <=> min = max)
  <2>1. CASE min = max
    <3>1. ports = {min}
      BY <1>2, <2>1
    <3> QED
      BY <1>1, <2>1, <3>1 DEF Ports
  <2>2. CASE min # max
    <3>1. ports = min .. max - 1
      BY <1>2, <2>2
    <3>2. min \in ports /\ max \notin ports
      BY <1>1, <2>2, <3>1 DEF Ports
    <3>3. ports \subseteq min .. max
      BY <1>1, <3>1 DEF Ports
    <3> QED
      BY <2>2, <3>2, <3>3
  <2> QED
    BY <2>1, <2>2
<1>4. ports \subseteq Ports
  <2>1. min .. max \subseteq Ports
    BY <1>1, PortsBetween
  <2> QED
    BY <1>3, <2>1, Zenon
<1> QED
  BY <1>3, <1>4 DEF min, max, ports

(* A configuration that loads has one of the four transfer modes that the  *)
(* rest of the code compares with, and a port range that is valid.         *)
THEOREM ValidatedConfig ==
    ASSUME NEW MasqueradeIP, NEW TransferMode, NEW DataPortRange, NEW IgnorePassiveIP,
           IsValidConfig([DataPortRange |-> DataPortRange, MasqueradeIP |-> MasqueradeIP,
                          TransferMode |-> TransferMode, IgnorePassiveIP |-> IgnorePassiveIP])
    PROVE  LET c == validateConfig([DataPortRange |-> DataPortRange,
                       MasqueradeIP |-> MasqueradeIP, TransferMode |-> TransferMode,
                       IgnorePassiveIP |-> IgnorePassiveIP])
           IN  /\ c.TransferMode \in {"PORT", "PASV", "EPSV", "CLIENT"}
               /\ dataPortRangeValidation(c.DataPortRange)
<1>1. dataPortRangeValidation(<<>>)
  BY DEF dataPortRangeValidation
<1>2. TransferMode \in {"PORT", "ACTIVE", "PASV", "PASSIVE", "EPSV", "CLIENT"}
  BY DEF IsValidConfig, CanonicalMode
<1>3. CanonicalMode[TransferMode] \in {"PORT", "PASV", "EPSV", "CLIENT"}
  BY <1>2 DEF CanonicalMode
<1> QED
  BY <1>1, <1>3 DEF validateConfig

=============================================================================
