----------------------------- MODULE PortOwner -----------------------------
(***************************************************************************)
(* What a port-ownership query promises its caller (spec 4.4 and 6), with *)
(* no resize loop, no entry-point probing and no process snapshot.  The   *)
(* operating system keeps a set of TCP endpoints that changes at any time. *)
(* A query for port p either reports an error or returns the owning pid   *)
(* of the first loopback/wildcard endpoint whose local port is p, as read *)
(* from one snapshot of the table taken between the call and its return   *)
(* (0 when no endpoint matches).  The snapshot is discarded on return.    *)
(***************************************************************************)
EXTENDS Integers, Sequences, SequencesExt, FiniteSets

CONSTANTS
    SortedConns,  \* every endpoint the model uses, in the order the OS sorts them
    QueryPorts,   \* port numbers a caller may ask about (host order)
    MaxRows,      \* bound on the number of endpoints open at once
    NoSnap,       \* model value: no snapshot taken during this query
    NoReply       \* model value: the caller has no answer yet

VARIABLES
    conns,  \* the endpoints the OS currently has
    busy,   \* a query is in progress
    port,   \* the port asked about
    snap,   \* the table snapshot the query read, or NoSnap
    reply   \* the value the caller received, or NoReply

vars == <<conns, busy, port, snap, reply>>

Conns == ToSet(SortedConns)

\* The negative results the caller may receive instead of a pid.
Errors == {-1, -2, -3}

\* IPv4 addresses are DWORDs holding the address bytes in network order,
\* read as a little-endian integer.
IPv4(a, b, c, d) == a + b * 2^8 + c * 2^16 + d * 2^24
Wildcard == IPv4(0, 0, 0, 0)
Loopback == IPv4(127, 0, 0, 1)
IsLocalAddr(a) == a \in {Wildcard, Loopback}

\* A port DWORD holds the two port bytes in network order in its low half;
\* the upper half is not meaningful.  The host-order port number:
HostPort(raw) == LET hi == raw % 2^8
                     lo == (raw \div 2^8) % 2^8
                 IN  hi * 2^8 + lo

\* The table as the OS delivers it: the open endpoints in sorted order.
Delivered(cs) == SelectSeq(SortedConns, LAMBDA c : c \in cs)

\* Endpoint r is a purely local binding of port p.
Matches(r, p) ==
    /\ IsLocalAddr(r.localAddr)
    /\ IsLocalAddr(r.remoteAddr)
    /\ HostPort(r.localPort) = p

\* Reference answer: owner of the first local endpoint bound to port p.
OwnerOf(tbl, p) ==
    LET i == SelectInSeq(tbl, LAMBDA r : Matches(r, p))
    IN  IF i = 0 THEN 0 ELSE tbl[i].pid

Init ==
    /\ conns \in {cs \in SUBSET Conns : Cardinality(cs) <= MaxRows}
    /\ busy = FALSE
    /\ port = 0
    /\ snap = NoSnap
    /\ reply = NoReply

Begin(p) ==
    /\ ~busy
    /\ busy' = TRUE
    /\ port' = p
    /\ snap' = NoSnap
    /\ reply' = NoReply
    /\ UNCHANGED conns

\* The query reads the whole table at one instant.
Snapshot ==
    /\ busy
    /\ snap' = Delivered(conns)
    /\ UNCHANGED <<conns, busy, port, reply>>

Return ==
    /\ busy
    /\ reply' \in Errors \cup (IF snap = NoSnap THEN {} ELSE {OwnerOf(snap, port)})
    /\ busy' = FALSE
    /\ snap' = NoSnap
    /\ UNCHANGED <<conns, port>>

\* The OS opens or closes endpoints at any moment.
Open(c) ==
    /\ c \notin conns
    /\ Cardinality(conns) < MaxRows
    /\ conns' = conns \cup {c}
    /\ UNCHANGED <<busy, port, snap, reply>>

\* One or several endpoints close at once (a process that ends closes all
\* of its endpoints).
Close(cs) ==
    /\ cs # {}
    /\ cs \subseteq conns
    /\ conns' = conns \ cs
    /\ UNCHANGED <<busy, port, snap, reply>>

Next ==
    \/ \E p \in QueryPorts : Begin(p)
    \/ Snapshot
    \/ Return
    \/ \E c \in Conns : Open(c)
    \/ \E cs \in SUBSET conns : Close(cs)

Spec == Init /\ [][Next]_vars

=============================================================================
