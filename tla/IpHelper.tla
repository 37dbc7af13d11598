------------------------------ MODULE IpHelper ------------------------------
(***************************************************************************)
(* Pure operators shared by the two netstatp.c files: Win32 status codes, *)
(* the byte shifts that print an address (NETSTAT.C has the same lines),  *)
(* the GetProcAddress probing that fills the function-pointer globals,    *)
(* and the loopback port scan of FindPIDByPort.  Both files carry their   *)
(* own copy of this code; the copies agree line for line.                 *)
(***************************************************************************)
EXTENDS Integers, Sequences

NO_ERROR == 0
ERROR_INSUFFICIENT_BUFFER == 122

\* A DWORD is held as the 32-bit integer with the same bit pattern, so the
\* int -> DWORD -> int round trips ("return -1" in a DWORD function,
\* pid = FindPIDByPort(port), printf("%d", FindPIDByPort(...))) keep the value.
Int32 == -(2^30) - 2^30 .. 2^30 + (2^30 - 1)

(***************************************************************************)
(* Entry-point probing.  Each GetProcAddress result is stored in its      *)
(* global pointer; the first name that does not resolve leaves its        *)
(* pointer NULL and ends the probe with FALSE.  ptrs is the set of        *)
(* non-NULL globals, exported the entry points the DLLs export.           *)
(***************************************************************************)
ExApis == <<"AllocateAndGetTcpExTableFromStack",
            "AllocateAndGetUdpExTableFromStack", "CreateToolhelp32Snapshot",
            "Process32First", "Process32Next">>

RECURSIVE Resolve(_, _, _)
Resolve(names, ptrs, exported) ==
    IF names = <<>> THEN [present |-> TRUE, ptrs |-> ptrs]
    ELSE IF Head(names) \in exported
         THEN Resolve(Tail(names), ptrs \cup {Head(names)}, exported)
         ELSE [present |-> FALSE, ptrs |-> ptrs \ {Head(names)}]

(***************************************************************************)
(* The table scan.  localPort = htons((WORD) dwLocalPort); an address     *)
(* matches when it is 0 or 16777343 (127.0.0.1); the first match returns  *)
(* its pid, and 0 is returned when the loop ends.                         *)
(***************************************************************************)
\* Fault variant: the port is compared in network byte order.
htonsMissing(w) == w

htons(w) == (w % 2^8) * 2^8 + w \div 2^8
IsLocal(addr) == addr = 0 \/ addr = 16777343

RECURSIVE ScanFrom(_, _, _)
ScanFrom(tbl, p, i) ==
    IF i > Len(tbl) THEN 0
    ELSE IF /\ IsLocal(tbl[i].localAddr)
            /\ IsLocal(tbl[i].remoteAddr)
            /\ htons(tbl[i].localPort % 2^16) = p
         THEN tbl[i].pid
         ELSE ScanFrom(tbl, p, i + 1)

FindInTable(tbl, p) == ScanFrom(tbl, p, 1)

\* The bytes of a 32-bit value, most significant first: (x >> 24) & 0xFF,
\* (x >> 16) & 0xFF, (x >> 8) & 0xFF, x & 0xFF.  A DWORD held as a
\* negative Int32 gives the same bytes (\div rounds down).
Octets(x) == [k \in 1 .. 4 |-> (x \div 2^(8 * (4 - k))) % 256]

\* The table the OS copies out: the open endpoints cs in the sort order.
OsTable(sorted, cs) == SelectSeq(sorted, LAMBDA c : c \in cs)

=============================================================================
