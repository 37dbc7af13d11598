---------------------------- MODULE MC_PortMap ----------------------------
(***************************************************************************)
(* Model-checking instance of PortMap.                                    *)
(*                                                                         *)
(* Endpoints: rows of MIB_TCPROW_OWNER_PID / MIB_TCPEXROW as the OS       *)
(* reports them: addresses as little-endian DWORDs of network-order       *)
(* bytes, ports with the two network-order bytes in the low half.  Port   *)
(* 80 is 0x0050 and travels as 0x5000 = 20480; port 20480 travels as 80,  *)
(* so the two query ports tell a missing byte swap apart.  Row Estab80    *)
(* has garbage in the upper half of dwLocalPort, which the (WORD) cast    *)
(* must drop.  TIME_WAIT rows are owned by pid 0, as Windows reports them.*)
(***************************************************************************)
EXTENDS PortMap

LISTEN == 2
ESTAB == 5
TIME_WAIT == 11

AnyAddr == 0
Lo == 16777343                 \* 127.0.0.1
Lan == 16820416                \* 192.168.0.1
Peer == 33597632               \* 192.168.0.2

Listen80   == [state |-> LISTEN, localAddr |-> AnyAddr, localPort |-> 20480,
               remoteAddr |-> AnyAddr, pid |-> 4]
TimeWait80 == [state |-> TIME_WAIT, localAddr |-> Lo, localPort |-> 20480,
               remoteAddr |-> Lo, pid |-> 0]
Estab80    == [state |-> ESTAB, localAddr |-> Lo, localPort |-> 3 * 2^16 + 20480,
               remoteAddr |-> Lo, pid |-> 8]
EstabOut   == [state |-> ESTAB, localAddr |-> Lo, localPort |-> 80,
               remoteAddr |-> Peer, pid |-> 8]
LanListen  == [state |-> LISTEN, localAddr |-> Lan, localPort |-> 80,
               remoteAddr |-> AnyAddr, pid |-> 4]

MC_SortedConns == <<Listen80, TimeWait80, Estab80, EstabOut, LanListen>>

\* Entry points exported by each Windows version (kernel32 and iphlpapi).
Toolhelp == {"CreateToolhelp32Snapshot", "Process32First", "Process32Next"}
Win2000 == Toolhelp
WinXP == Toolhelp \cup {"AllocateAndGetTcpExTableFromStack",
                        "AllocateAndGetUdpExTableFromStack"}
Vista == Toolhelp \cup {"GetExtendedTcpTable"}

\* The table calls may also fail outright.
ERROR_INVALID_PARAMETER == 87
MC_OsFailures == {ERROR_INVALID_PARAMETER}

MC_AllPlatforms == {Win2000, WinXP, Vista}
MC_SupportedPlatforms == {WinXP, Vista}
==========================================================================
