------------------------------ MODULE Netstatp ------------------------------
(***************************************************************************)
(* The 2002 netstatp lister (src/client/windows/contrib/portmap/          *)
(* netstatp_original/netstatp.c): main, GetOptions, ProcessPidToName and  *)
(* the first FindPIDByPort.  main probes the XP "Ex" entry points, parses *)
(* the command line, and then either prints the owner of one port (-p),  *)
(* or lists the TCP and UDP endpoints: with the Ex tables and a process   *)
(* snapshot for the names when they exist, otherwise with the two-call    *)
(* GetTcpTable/GetUdpTable sequence and no names.                         *)
(*                                                                         *)
(* The OS opens and closes endpoints and starts and ends processes        *)
(* between any two OS calls; a process that ends takes its endpoints with *)
(* it and its pid may be given to a new process.                          *)
(***************************************************************************)
EXTENDS Integers, Sequences, SequencesExt, FiniteSets, IpHelper, NameFormat

CONSTANTS
    SortedTcp,   \* TCP endpoints [proto, localAddr, localPort, remoteAddr, state, pid], OS sort order
    SortedUdp,   \* UDP endpoints [proto, localAddr, localPort, pid], OS sort order
    MaxRows,     \* bound on the endpoints open at once
    PidOrder,    \* the pids a process may have, in the order a process walk visits them
    Images,      \* executable names
    IdleImage,   \* the image of pid 0, which never ends
    Platforms,   \* for each Windows version, the set of entry points it exports
    OsFailures,  \* Win32 errors an OS call may return instead of succeeding
    Argvs,       \* command lines (argv[1..argc-1]) main may be started with
    NoProc,      \* model value: no process has this pid
    NoSnap,      \* model value: INVALID_HANDLE_VALUE / no process snapshot
    NoTable,     \* model value: the table has not been read
    Absent,      \* model value: a field a printed line does not have
    OutOfRange   \* model value: the bytes read past the end of TcpState

VARIABLES
    exports,   \* entry points the running Windows version exports
    eps,       \* TCP and UDP endpoints the OS currently has
    procs,     \* pid -> image of the running process, or NoProc
    resolved,  \* global function pointers that are non-NULL
    pc,        \* where main is
    opts,      \* what GetOptions produced: flags, searchPort and its status
    error,     \* main's error local: status of the last table call
    dwSize,    \* main's dwSize local, in rows
    tables,    \* "TCP"/"UDP" -> the table main read, or NoTable
    snap,      \* the process snapshot main took, or NoSnap
    out,       \* the endpoint lines printed, in order
    found,     \* the value printed by the -p path, or Absent
    exitCode,  \* main's return value
    crash,     \* why the process faulted, or "none"
    seen       \* history: the processes at the moment the TCP table was read

vars == <<exports, eps, procs, resolved, pc, opts, error, dwSize, tables,
          snap, out, found, exitCode, crash, seen>>

Endpoints == ToSet(SortedTcp) \cup ToSet(SortedUdp)
Pids == ToSet(PidOrder)
Protos == {"TCP", "UDP"}

\* netstatp.h: the rows of the Ex tables (the Win2000 tables have the same
\* fields but the pid); proto says which table a row is from.
MIB_TCPEXROW == [proto : {"TCP"}, state : Int32, localAddr : Int32,
                 localPort : Int32, remoteAddr : Int32, remotePort : Int32,
                 pid : Int32]
MIB_UDPEXROW == [proto : {"UDP"}, localAddr : Int32, localPort : Int32, pid : Int32]
Rows == [TCP |-> MIB_TCPEXROW, UDP |-> MIB_UDPEXROW]

MIB_TCP_STATE_ESTAB == 5
Unknown == "???"

\* static char TcpState[][32]: the name printed for each dwState.
TcpState == <<"???", "CLOSED", "LISTENING", "SYN_SENT", "SYN_RCVD",
              "ESTABLISHED", "FIN_WAIT1", "FIN_WAIT2", "CLOSE_WAIT",
              "CLOSING", "LAST_ACK", "TIME_WAIT", "DELETE_TCB">>

\* Fault variant: the 1998 array, which has no entry for DELETE_TCB.
TcpStateNameShortArray(s) ==
    IF s + 1 \in 1 .. 12 THEN TcpState[s + 1] ELSE OutOfRange

\* TcpState[dwState]; an index past the array reads whatever follows it.
TcpStateName(s) ==
    IF s + 1 \in DOMAIN TcpState THEN TcpState[s + 1] ELSE OutOfRange

(***************************************************************************)
(* GetOptions.  An argument is [lead, chars, atoi]: its first character,  *)
(* the characters after it, and atoi of the whole argument.  Options are  *)
(* read letter by letter; P takes the next argument as the port and ends  *)
(* its argument; a bare argument is allowed only right after a P.  Any    *)
(* other case is Usage(), which returns FALSE.                            *)
(***************************************************************************)
NoOptions == [ok |-> TRUE, flags |-> 0, searchPort |-> 0, skipNextArg |-> FALSE]

RECURSIVE OptionLetters(_, _, _, _)
OptionLetters(argv, i, j, st) ==
    IF j > Len(argv[i].chars) THEN st
    ELSE LET c == argv[i].chars[j] IN
         CASE c \in {"a", "A"} -> OptionLetters(argv, i, j + 1, [st EXCEPT !.flags = @ | FLAG_ALL_ENDPOINTS])
           [] c \in {"n", "N"} -> OptionLetters(argv, i, j + 1, [st EXCEPT !.flags = @ | FLAG_SHOW_NUMBERS])
           [] c \in {"p", "P"} ->
                IF i + 1 > Len(argv) THEN [st EXCEPT !.ok = FALSE]
                ELSE [st EXCEPT !.searchPort = argv[i + 1].atoi, !.skipNextArg = TRUE]
           [] OTHER -> [st EXCEPT !.ok = FALSE]

RECURSIVE ParseArgs(_, _, _)
ParseArgs(argv, i, st) ==
    IF i > Len(argv) \/ ~st.ok THEN st
    ELSE IF argv[i].lead \in {"-", "/"}
         THEN ParseArgs(argv, i + 1, OptionLetters(argv, i, 1, st))
         ELSE IF st.skipNextArg
              THEN ParseArgs(argv, i + 1, [st EXCEPT !.skipNextArg = FALSE])
              ELSE [st EXCEPT !.ok = FALSE]

GetOptions(argv) == ParseArgs(argv, 1, NoOptions)

(***************************************************************************)
(* Probing, and the process snapshot walk.                                *)
(***************************************************************************)
ExApisArePresent(ptrs) == Resolve(ExApis, ptrs, exports)

Calls(fp) == fp \in resolved

\* The entries of snapshot s in walk order.
Entries(s) == SelectSeq(PidOrder, LAMBDA p : s[p] # NoProc)

\* strcpy "???"; Process32First, then Process32Next until the pid is met.
\* processEntry.dwSize is never set: firstOk is whether the garbage in it
\* lets Process32First accept the structure.
ProcessPidToName(s, pid, firstOk) ==
    IF s = NoSnap \/ ~firstOk THEN Unknown
    ELSE LET i == SelectInSeq(Entries(s), LAMBDA p : p = pid)
         IN  IF i = 0 THEN Unknown ELSE s[pid]

(***************************************************************************)
(* main.                                                                  *)
(***************************************************************************)
TcpTable == OsTable(SortedTcp, eps)
UdpTable == OsTable(SortedUdp, eps)
OsTableOf(proto) == IF proto = "TCP" THEN TcpTable ELSE UdpTable

\* "Failed to snapshot ... endpoints.", PrintError(error), return -1.
Refuse(err) ==
    /\ error' = err
    /\ exitCode' = -1
    /\ pc' = "exit"

\* exPresent = ExApisArePresent(); GetOptions; dispatch on searchPort and
\* exPresent.  Banner, OS version check and WSAStartup have no state.
Start(argv) ==
    LET ex == ExApisArePresent(resolved)
        o  == GetOptions(argv)
    IN  /\ pc = "start"
        /\ resolved' = ex.ptrs
        /\ opts' = o
        /\ exitCode' = IF o.ok THEN 0 ELSE -1
        /\ pc' = CASE ~o.ok             -> "exit"
                  [] o.searchPort # 0    -> "find"
                  [] ex.present          -> "ex_tcp"
                  [] OTHER               -> "tcp_size"
        /\ UNCHANGED <<exports, eps, procs, error, dwSize, tables, snap, out,
                       found, crash, seen>>

\* FindPIDByPort probes again, prints a warning when the Ex entry points
\* are missing, and calls pAllocateAndGetTcpExTableFromStack regardless.
FindTable ==
    LET ex == ExApisArePresent(resolved) IN
    /\ pc = "find"
    /\ resolved' = ex.ptrs
    /\ "AllocateAndGetTcpExTableFromStack" \in ex.ptrs
    /\ \/ /\ tables' = [tables EXCEPT !["TCP"] = TcpTable]
          /\ pc' = "find_scan"
          /\ UNCHANGED <<error, found>>
       \/ \E err \in OsFailures :
          /\ error' = err
          /\ found' = -1
          /\ pc' = "exit"
          /\ UNCHANGED tables
    /\ UNCHANGED <<exports, eps, procs, opts, dwSize, snap, out, exitCode,
                   crash, seen>>

\* The same call where the pointer is NULL: an access violation.
FindNullCall ==
    LET ex == ExApisArePresent(resolved) IN
    /\ pc = "find"
    /\ "AllocateAndGetTcpExTableFromStack" \notin ex.ptrs
    /\ resolved' = ex.ptrs
    /\ crash' = "null_call"
    /\ pc' = "crashed"
    /\ UNCHANGED <<exports, eps, procs, opts, error, dwSize, tables, snap,
                   out, found, exitCode, seen>>

\* The unused process snapshot, the scan, printf("%d", pid), return 0.
FindScan ==
    /\ pc = "find_scan"
    /\ Calls("CreateToolhelp32Snapshot")
    /\ found' = FindInTable(tables["TCP"], opts.searchPort)
    /\ pc' = "exit"
    /\ UNCHANGED <<exports, eps, procs, resolved, opts, error, dwSize,
                   tables, snap, out, exitCode, crash, seen>>

\* pAllocateAndGetTcpExTableFromStack, then ...UdpEx...; either may fail.
ExTcpTable ==
    /\ pc = "ex_tcp"
    /\ \/ /\ tables' = [tables EXCEPT !["TCP"] = TcpTable]
          /\ seen' = procs
          /\ pc' = "ex_udp"
          /\ UNCHANGED <<error, exitCode>>
       \/ \E err \in OsFailures : Refuse(err) /\ UNCHANGED <<tables, seen>>
    /\ UNCHANGED <<exports, eps, procs, resolved, opts, dwSize, snap, out,
                   found, crash>>

\* Fault variant: the UDP table is fetched through the TCP entry point.
ExUdpTableTcpCall ==
    /\ pc = "ex_udp"
    /\ \/ /\ tables' = [tables EXCEPT !["UDP"] = TcpTable]
          /\ pc' = "ex_snapshot"
          /\ UNCHANGED <<error, exitCode>>
       \/ \E err \in OsFailures : Refuse(err) /\ UNCHANGED tables
    /\ UNCHANGED <<exports, eps, procs, resolved, opts, dwSize, snap, out,
                   found, crash, seen>>

ExUdpTable ==
    /\ pc = "ex_udp"
    /\ \/ /\ tables' = [tables EXCEPT !["UDP"] = UdpTable]
          /\ pc' = "ex_snapshot"
          /\ UNCHANGED <<error, exitCode>>
       \/ \E err \in OsFailures : Refuse(err) /\ UNCHANGED tables
    /\ UNCHANGED <<exports, eps, procs, resolved, opts, dwSize, snap, out,
                   found, crash, seen>>

\* CreateToolhelp32Snapshot; on failure names are not shown.
ExSnapshot ==
    /\ pc = "ex_snapshot"
    /\ snap' \in {procs} \cup (IF OsFailures = {} THEN {} ELSE {NoSnap})
    /\ pc' = "ex_print"
    /\ UNCHANGED <<exports, eps, procs, resolved, opts, error, dwSize,
                   tables, out, found, exitCode, crash, seen>>

\* The lines main prints: TCP rows when -a is given or the row is
\* ESTABLISHED, then UDP rows when -a is given.
Shown(o, r) == Has(o.flags, FLAG_ALL_ENDPOINTS) \/ r.state = MIB_TCP_STATE_ESTAB

ShownRows ==
    SelectSeq(tables["TCP"], LAMBDA r : Shown(opts, r))
    \o (IF Has(opts.flags, FLAG_ALL_ENDPOINTS) THEN tables["UDP"] ELSE <<>>)

\* One endpoint's lines: the process name, the state, and the local and
\* remote address:port texts.  Both tables' ports are looked up as "tcp";
\* a TCP remote port is "0" when the remote address is 0; a UDP line's
\* remote side is the literal "*.*.*.*:*".
Line(o, r, name) ==
    [ep |-> r, name |-> name,
     state |-> IF r.proto = "TCP" THEN TcpStateName(r.state) ELSE Absent,
     local |-> <<GetIpHostName(o.flags, TRUE, r.localAddr),
                 GetPortName(o.flags, r.localPort, "tcp")>>,
     remote |-> IF r.proto = "UDP" THEN Absent
                ELSE <<GetIpHostName(o.flags, FALSE, r.remoteAddr),
                       IF r.remoteAddr # 0
                       THEN GetPortName(o.flags, r.remotePort, "tcp")
                       ELSE [dec |-> 0]>>]

\* The Ex dump: one ProcessPidToName per line, each with its own garbage
\* in processEntry.dwSize.
ExPrint ==
    LET rows == ShownRows
        lines == [i \in 1 .. Len(rows) |-> Line(opts, rows[i], Unknown)]
    IN
    /\ pc = "ex_print"
    /\ \E firstOk \in [1 .. Len(rows) -> BOOLEAN] :
          out' = [i \in 1 .. Len(rows) |->
                    [lines[i] EXCEPT !.name = ProcessPidToName(snap, rows[i].pid, firstOk[i])]]
    /\ pc' = "exit"
    /\ UNCHANGED <<exports, eps, procs, resolved, opts, error, dwSize, tables,
                   snap, found, exitCode, crash, seen>>

\* Without the Ex entry points: dwSize = 0; GetTcpTable(NULL, &dwSize),
\* which must answer ERROR_INSUFFICIENT_BUFFER; then the same for UDP.
SizePc == [TCP |-> "tcp_size", UDP |-> "udp_size"]
FetchPc == [TCP |-> "tcp_fetch", UDP |-> "udp_fetch"]
AfterFetch == [TCP |-> "udp_size", UDP |-> "plain_print"]

GetTableSize(proto) ==
    /\ pc = SizePc[proto]
    /\ \/ /\ error' = ERROR_INSUFFICIENT_BUFFER
          /\ dwSize' = Len(OsTableOf(proto))
          /\ pc' = FetchPc[proto]
          /\ UNCHANGED exitCode
       \/ \E err \in OsFailures : Refuse(err) /\ UNCHANGED dwSize
    /\ UNCHANGED <<exports, eps, procs, resolved, opts, tables, snap, out,
                   found, crash, seen>>

\* malloc(dwSize); GetTcpTable(table, &dwSize): any status but NO_ERROR,
\* a table that grew since the size call included, ends main with -1.
GetTable(proto) ==
    LET t == OsTableOf(proto) IN
    /\ pc = FetchPc[proto]
    /\ \/ /\ Len(t) <= dwSize
          /\ error' = NO_ERROR
          /\ tables' = [tables EXCEPT ![proto] = t]
          /\ seen' = IF proto = "TCP" THEN procs ELSE seen
          /\ pc' = AfterFetch[proto]
          /\ UNCHANGED exitCode
       \/ /\ Len(t) > dwSize
          /\ Refuse(ERROR_INSUFFICIENT_BUFFER)
          /\ UNCHANGED <<tables, seen>>
       \/ \E err \in OsFailures : Refuse(err) /\ UNCHANGED <<tables, seen>>
    /\ UNCHANGED <<exports, eps, procs, resolved, opts, dwSize, snap, out,
                   found, crash>>

\* The dump without process ids or names.
PlainPrint ==
    /\ pc = "plain_print"
    /\ out' = [i \in 1 .. Len(ShownRows) |-> Line(opts, ShownRows[i], Absent)]
    /\ pc' = "exit"
    /\ UNCHANGED <<exports, eps, procs, resolved, opts, error, dwSize, tables,
                   snap, found, exitCode, crash, seen>>

(***************************************************************************)
(* The OS.  An endpoint is opened by a running process; a process that    *)
(* ends closes its endpoints; a free pid may be given to a new process.   *)
(***************************************************************************)
Live(p) == procs[p] # NoProc

ConnOpen(c) ==
    /\ c \notin eps
    /\ Live(c.pid)
    /\ Cardinality(eps) < MaxRows
    /\ eps' = eps \cup {c}
    /\ UNCHANGED <<exports, procs, resolved, pc, opts, error, dwSize, tables,
                   snap, out, found, exitCode, crash, seen>>

ConnClose(c) ==
    /\ c \in eps
    /\ eps' = eps \ {c}
    /\ UNCHANGED <<exports, procs, resolved, pc, opts, error, dwSize, tables,
                   snap, out, found, exitCode, crash, seen>>

ProcExit(p) ==
    /\ p # 0
    /\ Live(p)
    /\ procs' = [procs EXCEPT ![p] = NoProc]
    /\ eps' = {c \in eps : c.pid # p}
    /\ UNCHANGED <<exports, resolved, pc, opts, error, dwSize, tables, snap,
                   out, found, exitCode, crash, seen>>

ProcStart(p, img) ==
    /\ ~Live(p)
    /\ procs' = [procs EXCEPT ![p] = img]
    /\ UNCHANGED <<exports, eps, resolved, pc, opts, error, dwSize, tables,
                   snap, out, found, exitCode, crash, seen>>

(***************************************************************************)
(* The specification.                                                     *)
(***************************************************************************)
ProcStates ==
    {f \in [Pids -> Images \cup {NoProc}] :
        \A p \in Pids : (f[p] = IdleImage) = (p = 0)}

Init ==
    /\ exports \in Platforms
    /\ procs \in ProcStates
    /\ eps \in {es \in SUBSET Endpoints :
                  Cardinality(es) <= MaxRows /\ \A c \in es : procs[c.pid] # NoProc}
    /\ resolved = {}
    /\ pc = "start"
    /\ opts = NoOptions
    /\ error = NO_ERROR
    /\ dwSize = 0
    /\ tables = [p \in Protos |-> NoTable]
    /\ snap = NoSnap
    /\ out = <<>>
    /\ found = Absent
    /\ exitCode = 0
    /\ crash = "none"
    /\ seen = procs

\* Once main has returned or faulted, nothing the model tells apart can
\* change: the OS is only followed while the program runs.
Running == pc \notin {"exit", "crashed"}

Next ==
    \/ \E argv \in Argvs : Start(argv)
    \/ FindTable \/ FindNullCall \/ FindScan
    \/ ExTcpTable \/ ExUdpTable \/ ExSnapshot \/ ExPrint
    \/ \E proto \in Protos : GetTableSize(proto) \/ GetTable(proto)
    \/ PlainPrint
    \/ /\ Running
       /\ \/ \E c \in Endpoints : ConnOpen(c) \/ ConnClose(c)
          \/ \E p \in Pids \ {0} :
                \/ ProcExit(p)
                \/ \E img \in Images \ {IdleImage} : ProcStart(p, img)

Spec == Init /\ [][Next]_vars

(***************************************************************************)
(* Properties.                                                            *)
(***************************************************************************)
Pcs == {"start", "find", "find_scan", "ex_tcp", "ex_udp", "ex_snapshot",
        "ex_print", "tcp_size", "tcp_fetch", "udp_size", "udp_fetch",
        "plain_print", "exit", "crashed"}

TypeOK ==
    /\ exports \in Platforms
    /\ eps \subseteq Endpoints
    /\ procs \in ProcStates
    /\ resolved \subseteq ToSet(ExApis)
    /\ pc \in Pcs
    /\ error \in {NO_ERROR, ERROR_INSUFFICIENT_BUFFER} \cup OsFailures
    /\ dwSize \in 0 .. MaxRows
    /\ \A p \in Protos :
          \/ tables[p] = NoTable
          \/ \A i \in DOMAIN tables[p] : tables[p][i] \in Rows[p] /\ tables[p][i] \in Endpoints
    /\ snap \in ProcStates \cup {NoSnap}
    /\ \A i \in DOMAIN out :
          /\ out[i].ep \in Endpoints
          /\ out[i].name \in Images \cup {Unknown, Absent}
    /\ found = Absent \/ found \in Int32
    /\ exitCode \in {0, -1}
    /\ (crash = "none") = (pc # "crashed")
    /\ seen \in ProcStates

\* The -p path seen as one PortOwner query over the TCP endpoints: it is in
\* progress from main's dispatch to -p until main prints or faults, its
\* snapshot is the table FindTable read, its reply what main printed.
Owner == INSTANCE PortOwner WITH
    SortedConns <- SortedTcp,
    QueryPorts <- {GetOptions(argv).searchPort : argv \in Argvs} \ {0},
    conns <- eps \cap ToSet(SortedTcp),
    busy <- pc \in {"find", "find_scan", "crashed"},
    port <- IF opts.ok THEN opts.searchPort ELSE 0,
    snap <- IF pc = "find_scan" THEN tables["TCP"] ELSE NoTable,
    reply <- found,
    NoSnap <- NoTable,
    NoReply <- Absent

\* netstatp -p PORT keeps the promise of FindPIDByPort: whatever endpoints
\* and processes do meanwhile, it prints -1 or the owner of the first
\* local endpoint on the port in a TCP table read at one instant (the
\* second probe, the Ex table call, the unused snapshot, the byte swap
\* and the address filter of the scan).
FindRefinesPortOwner == Owner!Spec

\* Every printed TCP state is a defined state name, never "???" or bytes
\* read past TcpState, and it is ESTABLISHED exactly for the rows in
\* MIB_TCP_STATE_ESTAB (the TcpState[dwState] lookup of the dumps).
StatesDecoded ==
    \A i \in DOMAIN out :
        out[i].ep.proto = "TCP" =>
            /\ out[i].state \in ToSet(Tail(TcpState))
            /\ (out[i].state = "ESTABLISHED") = (out[i].ep.state = MIB_TCP_STATE_ESTAB)

\* The bytes of a DWORD as x86 memory holds it, lowest address first.
MemoryBytes(x) == [k \in 1 .. 4 |-> (x \div 256^(k - 1)) % 256]

\* A port as the tables hold it: in network byte order, its high byte
\* first in memory.
HostPort(p) == 256 * MemoryBytes(p)[1] + MemoryBytes(p)[2]

ShowsAddr(t, a) == "dot" \in DOMAIN t => t.dot = MemoryBytes(a)
ShowsPort(t, p) == "dec" \in DOMAIN t => t.dec = HostPort(p)
Numeric(t) == "str" \notin DOMAIN t

Texts(l) == {l.local[1], l.local[2]} \cup
            (IF l.ep.proto = "TCP" THEN {l.remote[1], l.remote[2]} ELSE {})

\* Every address a printed line shows as a dotted quad is its endpoint's
\* address, its bytes in the order they sit in memory (network order),
\* and every port shown as a number is the endpoint's port in host order;
\* with -n no address or port is a resolved name (GetIpHostName's htonl
\* and shifts, GetPortName's htons, the flags main passes down, and the
\* "0" printed for a TCP row without a remote address).
AddressesShown ==
    \A i \in DOMAIN out :
        LET l == out[i]
            r == l.ep
        IN  /\ ShowsAddr(l.local[1], r.localAddr)
            /\ ShowsPort(l.local[2], r.localPort)
            /\ r.proto = "TCP" =>
                  /\ ShowsAddr(l.remote[1], r.remoteAddr)
                  /\ (r.remoteAddr # 0 => ShowsPort(l.remote[2], r.remotePort))
            /\ Has(opts.flags, FLAG_SHOW_NUMBERS) => \A t \in Texts(l) : Numeric(t)

NamesShownWithSnapshot ==
    \A i \in DOMAIN out :
        (out[i].name # Absent /\ snap # NoSnap /\ snap[out[i].ep.pid] # NoProc)
            => out[i].name = snap[out[i].ep.pid]

=============================================================================
