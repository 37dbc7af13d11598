----------------------------- MODULE SnmpFormat -----------------------------
(***************************************************************************)
(* The 1998 netstatp's name formatting (src/client/windows/contrib/       *)
(* portmap/netstatp_original/NETSTAT.C): GetPortName and GetIpHostName.   *)
(*                                                                         *)
(* The SNMP agent gives a port as an INTEGER in host byte order, and an    *)
(* address as the four bytes of an IpAddress that main reads as a UINT,   *)
(* so an address is held as in the IP Helper tables but a port is not:    *)
(* this GetPortName swaps the port only for getservbyport and prints it   *)
(* as it is.  There are no option flags: names are always looked up.      *)
(* Texts are records as in NameFormat: [dec |-> n], [dot |-> bytes],       *)
(* [str |-> s].                                                            *)
(***************************************************************************)
EXTENDS Integers, Sequences, SequencesExt, IpHelper

CONSTANTS
    Services,   \* <<port in network order, proto>> -> service name (getservbyport)
    Hosts,      \* address -> host name (gethostbyaddr)
    HostName    \* this machine's name (gethostname)

\* getservbyport(htons((USHORT) port), proto).
ServiceKey(port, proto) == <<htons(port % 2^16), proto>>

\* Fault variant: the number printed is htons of the port, as the 2002
\* GetPortName prints the values of the IP Helper tables.
GetPortNameSwapped(port, proto) ==
    IF ServiceKey(port, proto) \in DOMAIN Services
    THEN [str |-> Services[ServiceKey(port, proto)]]
    ELSE [dec |-> htons(port % 2^16)]

\* The service's name, or sprintf("%d", port).
GetPortName(port, proto) ==
    IF ServiceKey(port, proto) \in DOMAIN Services
    THEN [str |-> Services[ServiceKey(port, proto)]]
    ELSE [dec |-> port]

\* nipaddr = htonl(ipaddr), printed high byte first.
DottedQuad(ipaddr) == [dot |-> Reverse(Octets(ipaddr))]

\* 0.0.0.0 and 127.0.0.1 are this machine's name on the local side,
\* 0.0.0.0 and "localhost" on the remote side; any other address is the
\* name gethostbyaddr finds or, failing that, the dotted quad.
GetIpHostName(local, ipaddr) ==
    CASE ipaddr = 0 /\ local              -> [str |-> HostName]
      [] ipaddr = 0                       -> DottedQuad(ipaddr)
      [] ipaddr = 16777343 /\ local       -> [str |-> HostName]
      [] ipaddr = 16777343                -> [str |-> "localhost"]
      [] ipaddr \in DOMAIN Hosts          -> [str |-> Hosts[ipaddr]]
      [] OTHER                            -> DottedQuad(ipaddr)

=============================================================================
