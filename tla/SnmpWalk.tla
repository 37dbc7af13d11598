------------------------------ MODULE SnmpWalk ------------------------------
(***************************************************************************)
(* The 1998 netstatp (src/client/windows/contrib/portmap/netstatp_original *)
(* /NETSTAT.C).  main loads inetmib1.dll and walks the MIB-II tcpConnTable *)
(* and then udpTable with one SNMP GETNEXT per cell.  GETNEXT returns the *)
(* cells column by column, so the program reads every row's column 1,    *)
(* then every row's column 2, and so on.  Column 1 appends a new entry to *)
(* a circular doubly linked list headed by a global TCPINFO; each later   *)
(* column starts again at the first entry and fills one field per cell.   *)
(* The OS opens and closes endpoints between any two requests.            *)
(*                                                                         *)
(* The list is a sequence and currentEntry an index into it, 0 standing   *)
(* for the head (TcpInfoTable / UdpInfoTable).  The GETNEXT cursor is a   *)
(* column and a position in the SNMP index order of the endpoints.        *)
(***************************************************************************)
EXTENDS Integers, Sequences, SequencesExt, FiniteSets, SnmpFormat

CONSTANTS
    SortedTcp,   \* TCP endpoints [state, localAddr, localPort, remoteAddr, remotePort], SNMP index order
    SortedUdp,   \* UDP endpoints [localAddr, localPort], SNMP index order
    MaxRows,     \* bound on the endpoints open at once
    SnmpFails,   \* whether the extension DLL may fail to load, initialise or answer
    Garbage,     \* model value: a field malloc left uninitialised
    OutOfRange,  \* model value: the bytes read past the end of TcpState
    End          \* model value: GETNEXT left the table (idLength < 0xA)

VARIABLES
    eps,       \* TCP and UDP endpoints the OS currently has
    pc,        \* "load", "walk", "print" or "exit"
    proto,     \* the table being walked
    cursor,    \* bindEntry.name: [col, pos] of the last cell returned
    currentIndex,
    current,   \* currentEntry: 0 is the head, i the i-th entry
    list,      \* the entries reachable from the head, in order
    exitCode,  \* main's return value
    quiet,     \* history: no endpoint opened or closed since this walk began
    during     \* history: endpoints open at some moment of this walk

vars == <<eps, pc, proto, cursor, currentIndex, current, list, exitCode,
          quiet, during>>

Endpoints == ToSet(SortedTcp) \cup ToSet(SortedUdp)
Sorted == [TCP |-> SortedTcp, UDP |-> SortedUdp]

\* The column number -> TCPINFO field each case of the TCP switch writes.
TcpColumns == <<"state", "localAddr", "localPort", "remoteAddr", "remotePort">>

\* The same for the UDP switch: cases 1 and 2 only.
UdpColumns == <<"localAddr", "localPort">>

\* The TCPINFO fields a walk of each table fills.
Columns == [TCP |-> TcpColumns, UDP |-> UdpColumns]

\* static char TcpState[][32]: twelve names, none for deleteTCB (12).
TcpState == <<"???", "CLOSED", "LISTENING", "SYN_SENT", "SEN_RECEIVED",
              "ESTABLISHED", "FIN_WAIT", "FIN_WAIT2", "CLOSE_WAIT",
              "CLOSING", "LAST_ACK", "TIME_WAIT">>

TcpStateName(s) ==
    IF s \in 0 .. Len(TcpState) - 1 THEN TcpState[s + 1] ELSE OutOfRange

(***************************************************************************)
(* The agent's GETNEXT: the next cell after the cursor among the rows     *)
(* open now, in column-major order; End past the last column.             *)
(***************************************************************************)
OpenAt(p) == {i \in 1 .. Len(Sorted[p]) : Sorted[p][i] \in eps}

GetNext(p, c) ==
    LET later == {i \in OpenAt(p) : i > c.pos} IN
    IF later # {} THEN [col |-> c.col, pos |-> Min(later)]
    ELSE IF c.col < Len(Columns[p]) /\ OpenAt(p) # {}
         THEN [col |-> c.col + 1, pos |-> Min(OpenAt(p))]
         ELSE End

\* bindEntry.name before the first request: the column-1 prefix.
Start == [col |-> 1, pos |-> 0]

(***************************************************************************)
(* The list.                                                              *)
(***************************************************************************)
\* Fault variant: a new entry's next is not pointed back at the head.
SuccNoWrap(i, n) == i + 1

\* currentEntry->next: the entry after i, the head after the last one.
Succ(i, n) == IF i < n THEN i + 1 ELSE 0

\* Fault variant: currentEntry is not reset when the column changes.
RewindNever(cur, idx, col, n) == cur

\* "Go back to start of table": TcpInfoTable.next when the column changed.
Rewind(cur, idx, col, n) ==
    IF idx # col THEN (IF n > 0 THEN 1 ELSE 0) ELSE cur

\* Column 1: a new entry holding the cell, linked after currentEntry,
\* every other field as malloc left it.
NewEntry(p, v) == [f \in ToSet(Columns[p]) |-> IF f = Columns[p][1] THEN v ELSE Garbage]

(***************************************************************************)
(* main.                                                                  *)
(***************************************************************************)
\* The state of a walk about to begin: bindEntry.name set to the table's
\* column-1 prefix, the head linked to itself, currentIndex = 1.
BeginWalk(p) ==
    /\ proto' = p
    /\ cursor' = Start
    /\ currentIndex' = 1
    /\ current' = 0
    /\ list' = <<>>
    /\ quiet' = TRUE
    /\ during' = eps

\* return 1: the DLL did not load, initialise, or answer a request.
Fail ==
    /\ SnmpFails
    /\ pc' = "exit"
    /\ exitCode' = 1
    /\ UNCHANGED <<eps, proto, cursor, currentIndex, current, list,
                   quiet, during>>

\* LoadInetMibEntryPoints and pSnmpExtensionInit succeed.
Load ==
    /\ pc = "load"
    /\ pc' = "walk"
    /\ BeginWalk("TCP")
    /\ UNCHANGED <<eps, exitCode>>

LoadFails == pc = "load" /\ Fail

\* One pSnmpExtensionQuery(GETNEXT) and the switch on ids[9].
Query ==
    LET n == GetNext(proto, cursor)
        k == Len(list)
        cur == Rewind(current, currentIndex, n.col, k)
        field == Columns[proto][n.col]
        v == Sorted[proto][n.pos][field]
    IN
    /\ pc = "walk"
    /\ n # End
    /\ cursor' = n
    /\ currentIndex' = n.col
    /\ IF n.col = 1
       THEN /\ list' = SubSeq(list, 1, cur) \o <<NewEntry(proto, v)>>
            /\ current' = cur + 1
       ELSE /\ list' = IF cur = 0 THEN list ELSE [list EXCEPT ![cur][field] = v]
            /\ current' = Succ(cur, k)
    /\ UNCHANGED <<eps, pc, proto, exitCode, quiet, during>>

QueryFails == pc = "walk" /\ Fail

\* bindEntry.name.idLength < 0xA: the walk has left the table.
WalkEnds ==
    /\ pc = "walk"
    /\ GetNext(proto, cursor) = End
    /\ pc' = "print"
    /\ UNCHANGED <<eps, proto, cursor, currentIndex, current, list,
                   exitCode, quiet, during>>

(***************************************************************************)
(* The dumps.  Printing changes no state: Dump(proto) is what the dump    *)
(* of the table just walked prints, one line per entry of the list.  A    *)
(* field malloc left uninitialised prints as Garbage: what the formatting *)
(* makes of it is not modelled.                                           *)
(***************************************************************************)
Text(v, t) == IF v = Garbage THEN Garbage ELSE t

\* One TCP line: local and remote address:port, and TcpState[state].  The
\* remote port is "0" when the remote address is 0.
TcpLine(e) ==
    [entry |-> e,
     state |-> TcpStateName(e.state),
     local |-> <<Text(e.localAddr, GetIpHostName(TRUE, e.localAddr)),
                 Text(e.localPort, GetPortName(e.localPort, "tcp"))>>,
     remote |-> <<Text(e.remoteAddr, GetIpHostName(FALSE, e.remoteAddr)),
                  Text(e.remoteAddr,
                       IF e.remoteAddr # 0
                       THEN Text(e.remotePort, GetPortName(e.remotePort, "tcp"))
                       ELSE [dec |-> 0])>>]

\* One UDP line: the local address:port, the port looked up as "udp".
UdpLine(e) ==
    [entry |-> e,
     local |-> <<Text(e.localAddr, GetIpHostName(TRUE, e.localAddr)),
                 Text(e.localPort, GetPortName(e.localPort, "udp"))>>]

Dump(p) == [i \in DOMAIN list |-> IF p = "TCP" THEN TcpLine(list[i]) ELSE UdpLine(list[i])]

\* Print the TCP list from TcpInfoTable.next round to the head (Dump), then set
\* bindEntry up for the UDP table and walk it.
PrintTcp ==
    /\ pc = "print"
    /\ proto = "TCP"
    /\ pc' = "walk"
    /\ BeginWalk("UDP")
    /\ UNCHANGED <<eps, exitCode>>

\* Print the UDP list from UdpInfoTable.next round to the head (Dump) and
\* return 0.
PrintUdp ==
    /\ pc = "print"
    /\ proto = "UDP"
    /\ pc' = "exit"
    /\ exitCode' = 0
    /\ UNCHANGED <<eps, proto, cursor, currentIndex, current, list, quiet, during>>

(***************************************************************************)
(* The OS.                                                                *)
(***************************************************************************)
ConnOpen(c) ==
    /\ c \notin eps
    /\ Cardinality(eps) < MaxRows
    /\ eps' = eps \cup {c}
    /\ quiet' = FALSE
    /\ during' = during \cup {c}
    /\ UNCHANGED <<pc, proto, cursor, currentIndex, current, list, exitCode>>

ConnClose(c) ==
    /\ c \in eps
    /\ eps' = eps \ {c}
    /\ quiet' = FALSE
    /\ UNCHANGED <<pc, proto, cursor, currentIndex, current, list,
                   exitCode, during>>

Init ==
    /\ eps \in {es \in SUBSET Endpoints : Cardinality(es) <= MaxRows}
    /\ pc = "load"
    /\ proto = "TCP"
    /\ cursor = Start
    /\ currentIndex = 1
    /\ current = 0
    /\ list = <<>>
    /\ exitCode = 0
    /\ quiet = TRUE
    /\ during = eps

Next ==
    \/ Load \/ LoadFails
    \/ Query \/ QueryFails \/ WalkEnds
    \/ PrintTcp \/ PrintUdp
    \/ \E c \in Endpoints : ConnOpen(c) \/ ConnClose(c)

Spec == Init /\ [][Next]_vars

(***************************************************************************)
(* Properties.                                                            *)
(***************************************************************************)
TypeOK ==
    /\ eps \subseteq Endpoints
    /\ pc \in {"load", "walk", "print", "exit"}
    /\ proto \in {"TCP", "UDP"}
    /\ cursor.col \in 1 .. Len(Columns[proto])
    /\ cursor.pos \in 0 .. Len(Sorted[proto])
    /\ currentIndex \in 1 .. Len(Columns[proto])
    /\ current \in 0 .. Len(list)
    /\ Len(list) <= Len(Sorted[proto])
    /\ exitCode \in {0, 1}
    /\ during \subseteq Endpoints

\* The row the OS has for this walk's table, in SNMP index order.
Table(p) == SelectSeq(Sorted[p], LAMBDA r : r \in eps)

\* When no endpoint opened or closed while a table was walked, the list
\* the walk assembled is that table: one entry per row, in index order,
\* every field from its own row (the column-1 append, the rewind at
\* each new column and the field each switch case writes).
QuietWalkIsSnapshot ==
    (pc = "print" /\ quiet) => list = Table(proto)

\* Every entry the walk assembled is an endpoint the OS had at some
\* moment of the walk: no entry mixes the fields of two endpoints or
\* keeps a field malloc left uninitialised.
EntriesAreEndpoints ==
    pc = "print" => \A i \in DOMAIN list : list[i] \in during

\* Every state the TCP dump prints, TcpState[currentEntry->state], is one
\* of the names of TcpState, never the bytes after it (spec 4.2: an
\* unknown state decodes to Unknown).
StatesDecoded ==
    (pc = "print" /\ proto = "TCP") =>
        \A i \in DOMAIN list : TcpStateName(list[i].state) # OutOfRange

\* The bytes of a UINT as x86 memory holds it, lowest address first: for
\* an IpAddress read from the SNMP stream, the address in network order.
MemoryBytes(x) == [k \in 1 .. 4 |-> (x \div 256^(k - 1)) % 256]

ShowsAddr(t, a) == (t # Garbage /\ "dot" \in DOMAIN t) => t.dot = MemoryBytes(a)

\* A host-order port as the services database keys it: the low 16 bits
\* with their two bytes exchanged (network order).
NetworkPort(port) == LET w == port % 2^16 IN 256 * (w % 256) + w \div 256

\* A port is shown as the name of the service at that port for the line's
\* protocol when the services database has one, and otherwise as the
\* number the agent gave (host order).
ShowsPort(t, port, pr) ==
    \/ t = Garbage
    \/ t = IF <<NetworkPort(port), pr>> \in DOMAIN Services
           THEN [str |-> Services[<<NetworkPort(port), pr>>]]
           ELSE [dec |-> port]

\* Every address:port a dump prints is the one its list entry holds:
\* a dotted quad is the address's bytes in network order, a port is the
\* service name for that port and the table's protocol exactly when one
\* exists, and otherwise the agent's host-order number (GetIpHostName's
\* htonl and shifts, GetPortName's htons for getservbyport and none for
\* the printed number, the "udp" lookup of the UDP dump).
DumpShowsEntries ==
    pc = "print" =>
    \A i \in DOMAIN list :
        LET l == Dump(proto)[i]
            e == l.entry
        IN  /\ ShowsAddr(l.local[1], e.localAddr)
            /\ ShowsPort(l.local[2], e.localPort, IF proto = "TCP" THEN "tcp" ELSE "udp")
            /\ proto = "TCP" =>
                  /\ ShowsAddr(l.remote[1], e.remoteAddr)
                  /\ e.remoteAddr \notin {0, Garbage} => ShowsPort(l.remote[2], e.remotePort, "tcp")

=============================================================================
