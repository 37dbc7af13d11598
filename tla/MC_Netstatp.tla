---------------------------- MODULE MC_Netstatp ----------------------------
(***************************************************************************)
(* Constants for checking Netstatp: four TCP and two UDP endpoints owned  *)
(* by pids 0, 4 and 8, two images a pid may be reused by, four command    *)
(* lines, and Windows 2000 and XP.                                        *)
(***************************************************************************)
EXTENDS Netstatp

CONSTANTS Idle, ImgA, ImgB, MyHost, PeerHost

Lo == 16777343        \* 127.0.0.1
Peer == -939480896    \* 192.168.0.200: a DWORD above 2^31

\* Ports in network byte order: 80 is 20480, 53 is 13568.
\* 1044 is 5124.  A listener's remote port is whatever the stack left there.
TcpListen == [proto |-> "TCP", localAddr |-> 0, localPort |-> 20480,
              remoteAddr |-> 0, remotePort |-> 5124, state |-> 2, pid |-> 4]
TcpEstab == [proto |-> "TCP", localAddr |-> Lo, localPort |-> 20480,
             remoteAddr |-> Lo, remotePort |-> 5124, state |-> 5, pid |-> 8]
TcpTimeWait == [proto |-> "TCP", localAddr |-> Lo, localPort |-> 20480,
                remoteAddr |-> Lo, remotePort |-> 5124, state |-> 11, pid |-> 0]
TcpDeleteTcb == [proto |-> "TCP", localAddr |-> Lo, localPort |-> 80,
                 remoteAddr |-> Peer, remotePort |-> 20480, state |-> 12, pid |-> 8]
UdpDns == [proto |-> "UDP", localAddr |-> 0, localPort |-> 13568, pid |-> 4]
UdpLo == [proto |-> "UDP", localAddr |-> Lo, localPort |-> 20480, pid |-> 8]

MC_SortedTcp == <<TcpListen, TcpTimeWait, TcpEstab, TcpDeleteTcb>>
MC_SortedUdp == <<UdpDns, UdpLo>>
MC_PidOrder == <<0, 4, 8>>
MC_Images == {Idle, ImgA, ImgB}

\* ImgA and ImgB only tell processes apart: swapping them is a symmetry.
MC_ImageSymmetry == Permutations({ImgA, ImgB})

\* argv[i] as [lead, chars, atoi].
Arg(lead, chars, n) == [lead |-> lead, chars |-> chars, atoi |-> n]
MC_Argvs == {<<>>,
             <<Arg("-", <<"a", "n">>, 0)>>,
             <<Arg("-", <<"p">>, 0), Arg("8", <<"0">>, 80)>>,
             <<Arg("/", <<"x">>, 0)>>}

\* The resolver: port 80 is "http" for TCP only; the peer has a name.
MC_Services == <<20480, "tcp">> :> "http"
MC_Hosts == Peer :> PeerHost

Toolhelp == {"CreateToolhelp32Snapshot", "Process32First", "Process32Next"}
Win2000 == Toolhelp
WinXP == Toolhelp \cup {"AllocateAndGetTcpExTableFromStack",
                        "AllocateAndGetUdpExTableFromStack"}
MC_Platforms == {Win2000, WinXP}
MC_XPOnly == {WinXP}

ERROR_INVALID_PARAMETER == 87
MC_OsFailures == {ERROR_INVALID_PARAMETER}

=============================================================================
