---------------------------- MODULE MC_SnmpWalk ----------------------------
(***************************************************************************)
(* Constants for checking SnmpWalk: three TCP endpoints (LISTENING,       *)
(* ESTABLISHED, deleteTCB) and two UDP endpoints, in SNMP index order,    *)
(* and a resolver that names some of their ports.                         *)
(***************************************************************************)
EXTENDS SnmpWalk

CONSTANT MyHost

Lo == 16777343        \* 127.0.0.1
Peer == -939480896    \* 192.168.0.200: a UINT above 2^31

TcpListen == [state |-> 2, localAddr |-> 0, localPort |-> 80,
              remoteAddr |-> 0, remotePort |-> 0]
TcpEstab == [state |-> 5, localAddr |-> Lo, localPort |-> 80,
             remoteAddr |-> Lo, remotePort |-> 1025]
TcpDeleteTcb == [state |-> 12, localAddr |-> Lo, localPort |-> 1025,
                 remoteAddr |-> Peer, remotePort |-> 80]
UdpDns == [localAddr |-> 0, localPort |-> 53]
UdpLo == [localAddr |-> Lo, localPort |-> 137]

MC_SortedTcp == <<TcpListen, TcpEstab, TcpDeleteTcb>>
MC_SortedUdp == <<UdpDns, UdpLo>>

\* The resolver: 80 is "http" over TCP and 53 "domain" over UDP (keys in
\* network order); 1025 and 137 have no name, nor has the peer.
MC_Services == (<<20480, "tcp">> :> "http") @@ (<<13568, "udp">> :> "domain")
MC_Hosts == [a \in {} |-> MyHost]

=============================================================================
