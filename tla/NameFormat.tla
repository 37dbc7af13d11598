----------------------------- MODULE NameFormat -----------------------------
(***************************************************************************)
(* The 2002 netstatp's name formatting (src/client/windows/contrib/       *)
(* portmap/netstatp_original/netstatp.c): GetPortName and GetIpHostName,  *)
(* and the option flags of netstatp.h that select numbers over names.     *)
(*                                                                         *)
(* A text the functions write into their buffer is a record: [dec |-> n]  *)
(* for sprintf("%d", n), [dot |-> <<a, b, c, d>>] for                     *)
(* sprintf("%d.%d.%d.%d", a, b, c, d), and [str |-> s] for a name copied  *)
(* from the resolver or a literal.  The resolver is fixed for a run:      *)
(* Services and Hosts are what getservbyport and gethostbyaddr answer,    *)
(* HostName what gethostname writes.                                      *)
(***************************************************************************)
EXTENDS Integers, Sequences, SequencesExt, Bitwise, IpHelper

CONSTANTS
    Services,   \* <<port in network order, proto>> -> service name (getservbyport)
    Hosts,      \* address -> host name (gethostbyaddr)
    HostName    \* this machine's name (gethostname)

\* netstatp.h: the option flags.
FLAG_ALL_ENDPOINTS == 1
FLAG_SHOW_NUMBERS == 2

Has(flags, f) == (flags & f) # 0

\* Fault variant: the address is printed without htonl.
DottedQuadNoSwap(ipaddr) == [dot |-> Octets(ipaddr)]

\* nipaddr = htonl(ipaddr), printed high byte first.  htonl reverses the
\* byte order, so the bytes of nipaddr are those of ipaddr, low first.
DottedQuad(ipaddr) == [dot |-> Reverse(Octets(ipaddr))]

\* sprintf("%d", htons((WORD) port)) with -n; otherwise the name
\* getservbyport(port, proto) gives, or the same number when it has none.
GetPortName(flags, port, proto) ==
    IF ~Has(flags, FLAG_SHOW_NUMBERS) /\ <<port, proto>> \in DOMAIN Services
    THEN [str |-> Services[<<port, proto>>]]
    ELSE [dec |-> htons(port % 2^16)]

\* -n prints the dotted quad; otherwise 0.0.0.0 and 127.0.0.1 are this
\* machine's name on the local side, 0.0.0.0 and "localhost" on the
\* remote side, and any other address is its host name or, failing
\* that, the dotted quad.
GetIpHostName(flags, local, ipaddr) ==
    CASE Has(flags, FLAG_SHOW_NUMBERS)        -> DottedQuad(ipaddr)
      [] ipaddr = 0 /\ local                  -> [str |-> HostName]
      [] ipaddr = 0                           -> DottedQuad(ipaddr)
      [] ipaddr = 16777343 /\ local           -> [str |-> HostName]
      [] ipaddr = 16777343                    -> [str |-> "localhost"]
      [] ipaddr \in DOMAIN Hosts              -> [str |-> Hosts[ipaddr]]
      [] OTHER                                -> DottedQuad(ipaddr)

=============================================================================
