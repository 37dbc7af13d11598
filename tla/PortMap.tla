------------------------------ MODULE PortMap ------------------------------
(***************************************************************************)
(* The PortMap Python extension (src/client/windows/contrib/portmap/      *)
(* netstatp.c): py_find_pid_by_port and FindPIDByPort.  One caller issues *)
(* queries one after another; the OS opens and closes TCP endpoints       *)
(* between any two OS calls the query makes.  Each OS call is one step,   *)
(* so every point where the table can change under the query is a state. *)
(*                                                                         *)
(* A query probes the entry points (VistaApisArePresent, then             *)
(* ExApisArePresent), reads the TCP table either with the single-shot     *)
(* AllocateAndGetTcpExTableFromStack or with the two-call                 *)
(* GetExtendedTcpTable size/fetch sequence, takes a process snapshot it   *)
(* never uses, scans the table and returns a DWORD that the wrapper turns *)
(* into a Python int.  A call through a NULL entry point and the          *)
(* printf("%s", GetLastError()) on the error paths end the process.       *)
(***************************************************************************)
EXTENDS Integers, Sequences, SequencesExt, FiniteSets, IpHelper

CONSTANTS
    SortedConns,  \* every endpoint the model uses, in the order the OS sorts them
    QueryPorts,   \* Python ints the caller passes to find_pid_by_port
    MaxRows,      \* bound on the number of endpoints open at once
    MaxQueries,   \* bound on the number of queries in one behaviour
    Platforms,    \* for each Windows version, the set of entry points it exports
    OsFailures,   \* Win32 errors a table call may return besides ERROR_INSUFFICIENT_BUFFER
    NoSnap,       \* model value: the query holds no table
    NoReply       \* model value: the caller has no answer yet

VARIABLES
    exports,    \* entry points the running Windows version exports
    conns,      \* endpoints the OS currently has
    resolved,   \* global function pointers that are non-NULL
    pc,         \* where the current query is
    port,       \* FindPIDByPort's DWORD argument
    result,     \* status of the last GetExtendedTcpTable call
    size,       \* table size (in rows) last reported by GetExtendedTcpTable
    pTCPTable,  \* pTCPTable != NULL
    buf,        \* the table the query read, or NoSnap
    retval,     \* FindPIDByPort's DWORD return value
    reply,      \* the Python int last returned to the caller, or NoReply
    heap,       \* table buffers allocated and never freed
    handles,    \* process snapshot handles opened and never closed
    queries,    \* queries issued so far
    crash       \* why the process faulted, or "none"

vars == <<exports, conns, resolved, pc, port, result, size, pTCPTable,
          buf, retval, reply, heap, handles, queries, crash>>

Conns == ToSet(SortedConns)

(***************************************************************************)
(* Entry-point probing (netstatp.c's two probes over the shared Resolve). *)
(***************************************************************************)
VistaApis == <<"GetExtendedTcpTable", "CreateToolhelp32Snapshot",
               "Process32First", "Process32Next">>

\* Fault variant: the GetExtendedTcpTable lookup is not checked.
VistaApisArePresentNoTableCheck(ptrs) == Resolve(Tail(VistaApis), ptrs, exports)

VistaApisArePresent(ptrs) == Resolve(VistaApis, ptrs, exports)
ExApisArePresent(ptrs) == Resolve(ExApis, ptrs, exports)

\* netstatp.h: a row of the Vista table (MIB_TCPROW_OWNER_PID; the XP
\* MIB_TCPEXROW has the same layout), with the fields FindPIDByPort reads.
MIB_TCPROW_OWNER_PID == [state : Int32, localAddr : Int32, localPort : Int32,
                         remoteAddr : Int32, pid : Int32]

\* The table the OS copies out: the open endpoints in sorted order.
TcpTable == OsTable(SortedConns, conns)

(***************************************************************************)
(* Steps of a query.                                                       *)
(***************************************************************************)
\* The process stops: an access violation inside the extension.
Fault(cause) ==
    /\ pc' = "crashed"
    /\ crash' = cause
    /\ UNCHANGED retval

\* The entry point each OS-calling step goes through; the pointer is a
\* global that the probe may have left NULL.
EntryPointOf == [ex_table   |-> "AllocateAndGetTcpExTableFromStack",
                 size_probe |-> "GetExtendedTcpTable",
                 snapshot   |-> "CreateToolhelp32Snapshot"]

Calls(fp) == fp \in resolved

\* The error paths print GetLastError() with "%s": a zero code prints
\* "(null)", any other code is dereferenced as a string and faults.
PrintLastError(ret) ==
    \/ Fault("printf")
    \/ /\ retval' = ret
       /\ pc' = "done"
       /\ UNCHANGED crash

py_find_pid_by_port(p) ==
    /\ pc = "idle"
    /\ queries < MaxQueries
    /\ port' = p
    /\ reply' = NoReply
    /\ queries' = queries + 1
    /\ pc' = "probe"
    /\ UNCHANGED <<exports, conns, resolved, result, size, pTCPTable, buf,
                   retval, heap, handles, crash>>

\* Fault variant: pTCPTable kept from the previous call (a static buffer).
ProbeStaticBuffer ==
    /\ pc = "probe"
    /\ size' = 0
    /\ result' = NO_ERROR
    /\ LET vista == VistaApisArePresent(resolved)
       IN  IF vista.present
           THEN /\ resolved' = vista.ptrs
                /\ pc' = "size_probe"
           ELSE /\ resolved' = ExApisArePresent(vista.ptrs).ptrs
                /\ pc' = "ex_table"
    /\ UNCHANGED <<exports, conns, port, pTCPTable, buf, retval, reply, heap,
                   handles, queries, crash>>

\* FindPIDByPort's entry: its locals start as size = 0, result = 0,
\* pTCPTable = NULL.  Vista entry points are probed first; when they are
\* missing the Ex ones are probed but their result is ignored: the
\* legacy path runs either way.
Probe ==
    /\ pc = "probe"
    /\ size' = 0
    /\ result' = NO_ERROR
    /\ pTCPTable' = FALSE
    /\ LET vista == VistaApisArePresent(resolved)
       IN  IF vista.present
           THEN /\ resolved' = vista.ptrs
                /\ pc' = "size_probe"
           ELSE /\ resolved' = ExApisArePresent(vista.ptrs).ptrs
                /\ pc' = "ex_table"
    /\ UNCHANGED <<exports, conns, port, buf, retval, reply, heap, handles,
                   queries, crash>>

\* pAllocateAndGetTcpExTableFromStack(&tcpExTable, TRUE, heap, 2, 2)
GetTcpExTable ==
    /\ pc = "ex_table"
    /\ Calls("AllocateAndGetTcpExTableFromStack")
    /\ \/ /\ buf' = TcpTable
          /\ heap' = heap + 1
          /\ pc' = "snapshot"
          /\ UNCHANGED retval
       \/ /\ OsFailures # {}
          /\ retval' = -1
          /\ pc' = "done"
          /\ UNCHANGED <<buf, heap>>
    /\ UNCHANGED <<exports, conns, resolved, port, result, size, pTCPTable,
                   reply, handles, queries, crash>>

\* pGetExtendedTcpTable(NULL, &size, ...) and, when it does not report
\* ERROR_INSUFFICIENT_BUFFER, the "size estimation" failure.
SizeProbe ==
    /\ pc = "size_probe"
    /\ Calls("GetExtendedTcpTable")
    /\ \/ /\ result' = ERROR_INSUFFICIENT_BUFFER
          /\ size' = Len(TcpTable)
          /\ pc' = "resize"
          /\ UNCHANGED <<retval, crash>>
       \/ /\ result' \in OsFailures
          /\ PrintLastError(-3)
          /\ UNCHANGED size
    /\ UNCHANGED <<exports, conns, resolved, port, pTCPTable, buf, reply,
                   heap, handles, queries>>

\* One pass of the while loop: free the old buffer, malloc(size), fetch.
\* Any status other than NO_ERROR, ERROR_INSUFFICIENT_BUFFER included,
\* frees the buffer and returns -2.
ResizeFetch ==
    LET n == Len(TcpTable)
        held == heap - (IF pTCPTable THEN 1 ELSE 0) + 1
    IN
    /\ pc = "resize"
    /\ result = ERROR_INSUFFICIENT_BUFFER
    /\ pTCPTable' = TRUE
    /\ \/ /\ n <= size
          /\ result' = NO_ERROR
          /\ buf' = TcpTable
          /\ heap' = held
          /\ pc' = "snapshot"
          /\ UNCHANGED <<size, retval, crash>>
       \/ /\ \/ /\ n > size
                /\ result' = ERROR_INSUFFICIENT_BUFFER
                /\ size' = n
             \/ /\ result' \in OsFailures
                /\ UNCHANGED size
          /\ heap' = held - 1
          /\ PrintLastError(-2)
          /\ UNCHANGED buf
    /\ UNCHANGED <<exports, conns, resolved, port, reply, handles, queries>>

\* pCreateToolhelp32Snapshot(TH32CS_SNAPPROCESS, 0): the handle is never
\* used and never closed; INVALID_HANDLE_VALUE only prints a warning.
ProcessSnapshot ==
    /\ pc = "snapshot"
    /\ Calls("CreateToolhelp32Snapshot")
    /\ handles' \in {handles, handles + 1}
    /\ pc' = "scan"
    /\ UNCHANGED <<exports, conns, resolved, port, result, size, pTCPTable,
                   buf, retval, reply, heap, queries, crash>>

\* The next OS call goes through a NULL pointer: access violation.
NullCall ==
    /\ pc \in DOMAIN EntryPointOf
    /\ ~Calls(EntryPointOf[pc])
    /\ Fault("null_call")
    /\ UNCHANGED <<exports, conns, resolved, port, result, size, pTCPTable,
                   buf, reply, heap, handles, queries>>

ScanTable ==
    /\ pc = "scan"
    /\ retval' = FindInTable(buf, port)
    /\ pc' = "done"
    /\ UNCHANGED <<exports, conns, resolved, port, result, size, pTCPTable,
                   buf, reply, heap, handles, queries, crash>>

\* The wrapper hands the DWORD back as a Python int; the table pointer
\* dies with FindPIDByPort's frame (the table itself stays allocated).
PyReturn ==
    /\ pc = "done"
    /\ reply' = retval
    /\ pc' = "idle"
    /\ buf' = NoSnap
    /\ UNCHANGED <<exports, conns, resolved, port, result, size, pTCPTable,
                   retval, heap, handles, queries, crash>>

(***************************************************************************)
(* The OS side: endpoints open and close between any two steps.           *)
(***************************************************************************)
ConnOpen(c) ==
    /\ c \notin conns
    /\ Cardinality(conns) < MaxRows
    /\ conns' = conns \cup {c}
    /\ UNCHANGED <<exports, resolved, pc, port, result, size, pTCPTable,
                   buf, retval, reply, heap, handles, queries, crash>>

ConnClose(c) ==
    /\ c \in conns
    /\ conns' = conns \ {c}
    /\ UNCHANGED <<exports, resolved, pc, port, result, size, pTCPTable,
                   buf, retval, reply, heap, handles, queries, crash>>

QueryPcs == {"idle", "probe", "ex_table", "size_probe", "resize", "snapshot",
             "scan", "done", "crashed"}

TypeOK ==
    /\ exports \in Platforms
    /\ conns \subseteq Conns /\ Cardinality(conns) <= MaxRows
    /\ resolved \subseteq ToSet(VistaApis) \cup ToSet(ExApis)
    /\ pc \in QueryPcs
    /\ port \in Int32
    /\ result \in {NO_ERROR, ERROR_INSUFFICIENT_BUFFER} \cup OsFailures
    /\ size \in 0..MaxRows
    /\ pTCPTable \in BOOLEAN
    /\ \/ buf = NoSnap
       \/ buf \in Seq(MIB_TCPROW_OWNER_PID) /\ ToSet(buf) \subseteq Conns /\ Len(buf) <= MaxRows
    /\ retval \in Int32
    /\ reply = NoReply \/ reply \in Int32
    /\ heap \in 0..queries /\ handles \in 0..queries
    /\ queries \in 0..MaxQueries
    /\ crash \in {"none", "null_call", "printf"}
    /\ (crash = "none") = (pc # "crashed")

Init ==
    /\ exports \in Platforms
    /\ conns \in {cs \in SUBSET Conns : Cardinality(cs) <= MaxRows}
    /\ resolved = {}
    /\ pc = "idle"
    /\ port = 0
    /\ result = NO_ERROR
    /\ size = 0
    /\ pTCPTable = FALSE
    /\ buf = NoSnap
    /\ retval = 0
    /\ reply = NoReply
    /\ heap = 0
    /\ handles = 0
    /\ queries = 0
    /\ crash = "none"

\* The steps of FindPIDByPort after it has been called.
QueryStep ==
    \/ Probe
    \/ GetTcpExTable
    \/ SizeProbe
    \/ ResizeFetch
    \/ ProcessSnapshot
    \/ NullCall
    \/ ScanTable
    \/ PyReturn

Next ==
    \/ \E p \in QueryPorts : py_find_pid_by_port(p)
    \/ QueryStep
    \/ \E c \in Conns : ConnOpen(c) \/ ConnClose(c)

Spec == Init /\ [][Next]_vars

(***************************************************************************)
(* Properties.                                                             *)
(***************************************************************************)
Owner == INSTANCE PortOwner WITH busy <- pc # "idle", snap <- buf

\* find_pid_by_port keeps PortOwner's promise: whatever the OS does between
\* the OS calls of FindPIDByPort, the caller gets either a negative error
\* or the owner of the first local endpoint on the port in a table read at
\* one instant of the call (byte swap, address filter, scan order and the
\* DWORD/int round trip of py_find_pid_by_port included).
QueryRefinesPortOwner == Owner!Spec

\* Probing: FindPIDByPort only calls through a NULL entry point on a
\* Windows version that exports neither the Vista nor the XP entry points
\* (VistaApisArePresent / ExApisArePresent and the globals they leave set).
NullCallOnlyWhenUnsupported ==
    crash = "null_call" =>
        /\ ~(ToSet(VistaApis) \subseteq exports)
        /\ ~(ToSet(ExApis) \subseteq exports)

\* Spec 4.1 and 7: on a platform with neither table API the query must
\* report "unsupported"; FindPIDByPort must never call a NULL pointer.
NoNullEntryPointCall == crash # "null_call"

\* Spec 7: an OS failure is returned to the caller as a negative result;
\* the printf("%s", GetLastError()) on the -2/-3 paths must not fault.
OsErrorReported == crash # "printf"

\* Spec 4.2: a table that grew between the size probe and the fetch is
\* fetched again with the new size; -2 is only for a refused call.
GrowthRetried ==
    (pc = "done" /\ retval = -2) => result # ERROR_INSUFFICIENT_BUFFER

\* Spec 3 and 5: each query releases its table buffer and its process
\* snapshot handle before it returns.
TablesReleased == pc = "idle" => heap = 0 /\ handles = 0

\* Spec 4.4 and 6: NotFound is distinct from a process id, and the caller
\* reads 0 as "no owner"; so a return of 0 after a successful read means
\* that no local endpoint on the port in the table read belongs to a
\* process (the first-match scan of FindPIDByPort and the pid-0 rows the
\* OS reports for TIME_WAIT endpoints).
ZeroMeansNoOwner ==
    (pc = "done" /\ buf # NoSnap /\ retval = 0) =>
        \A i \in 1..Len(buf) : Owner!Matches(buf[i], port) => buf[i].pid = 0

=============================================================================
