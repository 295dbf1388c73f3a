----------------------------- MODULE Descriptors -----------------------------
(***************************************************************************)
(* The file descriptors of the robot server, raw_server/simple_server_main.c: *)
(* who opens and closes which number while the watchdog restarts Thread_TCP *)
(* and Ctrl-C runs gestionnaire.  The kernel gives the lowest free number,  *)
(* so a number that is closed twice, or closed and kept, soon means         *)
(* something else.  Only the calls that open, close or name a descriptor    *)
(* are modelled; RobotServer has the commands and the watchdog's count.     *)
(***************************************************************************)
EXTENDS Integers, FiniteSets, FiniteSetsExt

CONSTANTS
    MaxTcp,         \* bound: incarnations of Thread_TCP
    MaxConns,       \* bound: TCP clients
    MaxFd           \* the highest descriptor

ASSUME DescriptorsAssumption ==
    MaxTcp \in Nat \ {0} /\ MaxConns \in Nat /\ MaxFd \in Nat /\ MaxFd > 6 + MaxTcp + MaxConns

Fds == 0 .. MaxFd
Tcp == 1 .. MaxTcp
Udp == {"in", "out"}

VARIABLES
    fd,             \* what each descriptor is, "free" if nothing
    hUSB1,          \* the serial port
    socket_tcp,     \* the listening socket
    clntSock,       \* the socket of the TCP client
    connected,
    udpPc,          \* Thread_TCP_Trooper_In and Thread_TCP_Trooper_Out
    serialPc,       \* Thread_RS232_33f
    tcpPc, tcpTmp,  \* Thread_TCP, and what its accept returned
    thread0, cancelled,
    dogPc,          \* Thread_Dog from "if (connected)" on
    conns,          \* clients so far
    interrupted,    \* history: SIGINT was handled
    early,          \* history: a restart began, or descriptor 0 was closed, before
                    \* the serial port was open
    late            \* history: a cancel hit a thread that did not serve a client

numbers == <<hUSB1, socket_tcp, clntSock>>
tcpVars == <<tcpPc, tcpTmp, connected, conns>>
dogVars == <<dogPc, thread0, cancelled, early, late>>
vars == <<fd, numbers, udpPc, serialPc, tcpVars, dogVars, interrupted>>

Console == 0 .. 2

\* main: the three console descriptors are open and the threads start.  Globals that
\* hold descriptors are 0.
Init ==
    /\ fd = [n \in Fds |-> IF n \in Console THEN "console" ELSE "free"]
    /\ hUSB1 = 0 /\ socket_tcp = 0 /\ clntSock = 0
    /\ connected = FALSE
    /\ udpPc = [u \in Udp |-> "socket"]
    /\ serialPc = "open1"
    /\ tcpPc = [t \in Tcp |-> IF t = 1 THEN "socket" ELSE "unborn"]
    /\ tcpTmp = [t \in Tcp |-> 0]
    /\ thread0 = 1 /\ cancelled = {}
    /\ dogPc = "check"
    /\ conns = 0
    /\ interrupted = FALSE /\ early = FALSE /\ late = FALSE

\* The kernel: a new descriptor is the lowest free one; closing what is not open
\* (-1 included) does nothing.
Lowest == Min({n \in Fds : fd[n] = "free"})
Opens(kind) == fd' = [fd EXCEPT ![Lowest] = kind]
Closes(n) == fd' = [m \in Fds |-> IF m = n THEN "free" ELSE fd[m]]
Is(n, kind) == n \in Fds /\ fd[n] = kind

-----------------------------------------------------------------------------
(* The UDP threads open their socket once. *)

UdpSocket(u) ==
    /\ udpPc[u] = "socket"
    /\ Opens("udp")
    /\ udpPc' = [udpPc EXCEPT ![u] = "run"]
    /\ UNCHANGED <<numbers, serialPc, tcpVars, dogVars, interrupted>>

-----------------------------------------------------------------------------
(* Thread_RS232_33f opens the port, closes it, and opens it again. *)

serialOthers == <<socket_tcp, clntSock, udpPc, tcpVars, dogPc, thread0, cancelled, late,
                  interrupted>>

\* Mutant: a failed open is reported as -1.
openrs232Minus(ok) ==
    IF ok THEN hUSB1' = Lowest /\ Opens("serial")
    ELSE hUSB1' = -1 /\ UNCHANGED fd

\* openrs232 returns 0 when it fails.
openrs232(ok) ==
    IF ok THEN hUSB1' = Lowest /\ Opens("serial")
    ELSE hUSB1' = 0 /\ UNCHANGED fd

SerialOpen(from, to, ok) ==
    /\ serialPc = from
    /\ openrs232(ok)
    /\ serialPc' = IF ok \/ from = "open1" THEN to ELSE "spin"
    /\ UNCHANGED <<early, serialOthers>>

\* Mutant: the close comes after the second open.
SerialCloseLate ==
    /\ \/ serialPc = "close" /\ UNCHANGED fd /\ serialPc' = "open2"
       \/ serialPc = "drive" /\ Closes(hUSB1) /\ UNCHANGED serialPc
    /\ UNCHANGED <<hUSB1, early, serialOthers>>

\* close(hUSB1), which is close(0) if the port did not open.
SerialClose ==
    /\ serialPc = "close"
    /\ Closes(hUSB1)
    /\ serialPc' = "open2"
    /\ early' = (early \/ hUSB1 = 0)
    /\ UNCHANGED <<hUSB1, serialOthers>>

SerialThread ==
    \/ \E ok \in BOOLEAN :
          SerialOpen("open1", "close", ok) \/ SerialOpen("open2", "drive", ok)
    \/ SerialClose

-----------------------------------------------------------------------------
(* Thread_TCP.  A cancelled incarnation dies at its next accept, recv, send or *)
(* close; socket, bind and listen do not act on the cancellation.              *)

tcpOthers == <<hUSB1, udpPc, serialPc, dogVars, interrupted>>
Goto(t, from, to) == tcpPc[t] = from /\ tcpPc' = [tcpPc EXCEPT ![t] = to]
CancelPoints == {"accept", "recv", "send", "close"}
Serving == {"recv", "connected", "send"}

TcpSocket(t) ==
    /\ Goto(t, "socket", "bind")
    /\ socket_tcp' = Lowest
    /\ Opens("socket")
    /\ UNCHANGED <<clntSock, tcpTmp, connected, conns, tcpOthers>>

\* With SO_REUSEADDR bind fails only while another socket listens on the port; listen
\* on a socket without a port then picks another port.
PortTaken == \E n \in Fds : fd[n] = "listen"

TcpBind(t) ==
    /\ Goto(t, "bind", "listen")
    /\ fd' = IF Is(socket_tcp, "socket") /\ ~PortTaken
             THEN [fd EXCEPT ![socket_tcp] = "bound"] ELSE fd
    /\ UNCHANGED <<numbers, tcpTmp, connected, conns, tcpOthers>>

TcpListen(t) ==
    /\ Goto(t, "listen", "accept")
    /\ fd' = IF Is(socket_tcp, "bound") /\ ~PortTaken
             THEN [fd EXCEPT ![socket_tcp] = "listen"] ELSE fd
    /\ UNCHANGED <<numbers, tcpTmp, connected, conns, tcpOthers>>

TcpAccept(t) ==
    /\ t \notin cancelled
    /\ Is(socket_tcp, "listen")
    /\ conns < MaxConns
    /\ Goto(t, "accept", "store")
    /\ conns' = conns + 1
    /\ tcpTmp' = [tcpTmp EXCEPT ![t] = Lowest]
    /\ Opens("conn")
    /\ UNCHANGED <<numbers, connected, tcpOthers>>

\* accept on what is no listening socket fails at once; on one, it may fail too.
TcpAcceptFails(t) ==
    /\ t \notin cancelled
    /\ ~Is(socket_tcp, "socket")
    /\ Goto(t, "accept", "store")
    /\ tcpTmp' = [tcpTmp EXCEPT ![t] = -1]
    /\ UNCHANGED <<fd, numbers, connected, conns, tcpOthers>>

TcpStore(t) ==
    /\ Goto(t, "store", "recv")
    /\ clntSock' = tcpTmp[t]
    /\ tcpTmp' = [tcpTmp EXCEPT ![t] = 0]
    /\ UNCHANGED <<fd, hUSB1, socket_tcp, udpPc, serialPc, connected, conns, dogVars,
                   interrupted>>

\* A command arrives, or the client is gone.
TcpRecv(t) ==
    /\ t \notin cancelled
    /\ \/ Is(clntSock, "conn") /\ Goto(t, "recv", "connected")
       \/ Goto(t, "recv", "hangup")
    /\ UNCHANGED <<fd, numbers, tcpTmp, connected, conns, tcpOthers>>

TcpConnected(t) ==
    /\ Goto(t, "connected", "send")
    /\ connected' = TRUE
    /\ UNCHANGED <<fd, numbers, tcpTmp, conns, tcpOthers>>

TcpSend(t) ==
    /\ t \notin cancelled
    /\ Goto(t, "send", "recv")
    /\ UNCHANGED <<fd, numbers, tcpTmp, connected, conns, tcpOthers>>

TcpHangup(t) ==
    /\ Goto(t, "hangup", "close")
    /\ connected' = FALSE
    /\ UNCHANGED <<fd, numbers, tcpTmp, conns, tcpOthers>>

TcpClose(t) ==
    /\ t \notin cancelled
    /\ Goto(t, "close", "listen")
    /\ Closes(clntSock)
    /\ UNCHANGED <<numbers, tcpTmp, connected, conns, tcpOthers>>

TcpDie(t) ==
    /\ t \in cancelled
    /\ tcpPc[t] \in CancelPoints
    /\ tcpPc' = [tcpPc EXCEPT ![t] = "dead"]
    /\ UNCHANGED <<fd, numbers, tcpTmp, connected, conns, tcpOthers>>

TcpThread(t) ==
    \/ TcpSocket(t) \/ TcpBind(t) \/ TcpListen(t) \/ TcpAccept(t) \/ TcpAcceptFails(t)
    \/ TcpStore(t) \/ TcpRecv(t) \/ TcpConnected(t) \/ TcpSend(t) \/ TcpHangup(t)
    \/ TcpClose(t) \/ TcpDie(t)

-----------------------------------------------------------------------------
(* Thread_Dog, once the watchdog has expired: it may at any time. *)

dogOthers == <<numbers, udpPc, serialPc, tcpTmp, conns, interrupted>>
DogGoto(from, to) == dogPc = from /\ dogPc' = to

DogCheck ==
    /\ connected
    /\ DogGoto("check", "cancel")
    /\ connected' = FALSE
    /\ early' = (early \/ serialPc \in {"open1", "close", "open2"})
    /\ UNCHANGED <<fd, tcpPc, thread0, cancelled, late, dogOthers>>

DogCancel ==
    /\ DogGoto("cancel", "clntSock")
    /\ cancelled' = cancelled \cup {thread0}
    /\ late' = (late \/ tcpPc[thread0] \notin Serving)
    /\ UNCHANGED <<fd, tcpPc, connected, thread0, early, dogOthers>>

DogClose(n, from, to) ==
    /\ DogGoto(from, to)
    /\ Closes(n)
    /\ UNCHANGED <<tcpPc, connected, thread0, cancelled, early, late, dogOthers>>

\* Mutant: the listening socket is left open.
DogCloseAllButOne ==
    \/ DogClose(clntSock, "clntSock", "servSock")
    \/ DogClose(0, "servSock", "create")

\* Mutant: the client's socket is left open.
DogCloseAllButClient ==
    \/ DogClose(-1, "clntSock", "servSock")
    \/ DogClose(0, "servSock", "socket_tcp")
    \/ DogClose(socket_tcp, "socket_tcp", "create")

\* close(clntSock), close(servSock) with servSock 0 (it is never assigned), and
\* close(socket_tcp), after which the thread sleeps.
DogCloseAll ==
    \/ DogClose(clntSock, "clntSock", "servSock")
    \/ DogClose(0, "servSock", "socket_tcp")
    \/ DogClose(socket_tcp, "socket_tcp", "create")

DogCreate ==
    /\ thread0 < MaxTcp
    /\ DogGoto("create", "check")
    /\ thread0' = thread0 + 1
    /\ tcpPc' = [tcpPc EXCEPT ![thread0'] = "socket"]
    /\ UNCHANGED <<fd, connected, cancelled, early, late, dogOthers>>

DogThread == DogCheck \/ DogCancel \/ DogCloseAll \/ DogCreate

-----------------------------------------------------------------------------
\* gestionnaire, on SIGINT: StopMotor writes to hUSB1 if it is not 0, the
\* port is closed, and so is descriptor 0 (hUSB2).  Neither variable changes, and the
\* other threads go on.
Interrupt ==
    /\ interrupted' = TRUE
    /\ fd' = [n \in Fds |-> IF n \in {hUSB1, 0} THEN "free" ELSE fd[n]]
    /\ UNCHANGED <<numbers, udpPc, serialPc, tcpVars, dogVars>>

Next ==
    \/ \E u \in Udp : UdpSocket(u)
    \/ SerialThread
    \/ \E t \in Tcp : TcpThread(t)
    \/ DogThread
    \/ Interrupt

Spec == Init /\ [][Next]_vars

-----------------------------------------------------------------------------
Kinds == {"free", "console", "serial", "udp", "socket", "bound", "listen", "conn"}

\* Type invariant.
TypeOK ==
    /\ fd \in [Fds -> Kinds]
    /\ hUSB1 \in Fds /\ socket_tcp \in Fds /\ clntSock \in Fds \cup {-1}
    /\ connected \in BOOLEAN
    /\ udpPc \in [Udp -> {"socket", "run"}]
    /\ serialPc \in {"open1", "close", "open2", "drive", "spin"}
    /\ tcpPc \in [Tcp -> CancelPoints \cup {"unborn", "socket", "bind", "listen", "store",
                                            "connected", "hangup", "dead"}]
    /\ tcpTmp \in [Tcp -> Fds \cup {-1}]
    /\ thread0 \in Tcp /\ cancelled \subseteq Tcp
    /\ dogPc \in {"check", "cancel", "clntSock", "servSock", "socket_tcp", "create"}
    /\ conns \in 0 .. MaxConns
    /\ interrupted \in BOOLEAN /\ early \in BOOLEAN /\ late \in BOOLEAN

\* The restart the code intends: the cancel hits the thread while it serves a client,
\* the serial port is open by then (at the first attempt too: otherwise close(hUSB1)
\* is close(0), and the second open returns 0), and nobody pressed Ctrl-C.
Orderly == ~interrupted /\ ~early /\ ~late

\* What the serial thread writes for the motors goes to the serial port, and to no
\* socket that has got its number, however often the watchdog restarts Thread_TCP.
PortKept == serialPc = "drive" /\ Orderly => hUSB1 # 0 /\ fd[hUSB1] = "serial"

\* Restarting Thread_TCP leaves nothing open: there are never more descriptors than,
\* beside the console, the port, two UDP sockets, a listening socket and a connection.
NoLeak == Orderly => Cardinality({n \in Fds : fd[n] \notin {"free", "console"}}) <= 5

\* A Thread_TCP that waits for a client waits on a socket that has the server's port,
\* whatever its predecessors left behind.
ListenerUp ==
    tcpPc[thread0] = "accept" /\ thread0 \notin cancelled /\ Orderly =>
        fd[socket_tcp] = "listen"
=============================================================================
