---------------------------- MODULE RobotServer ----------------------------
(***************************************************************************)
(* The command path of the robot server, raw_server/simple_server_main.c:  *)
(* the threads that write the shared command frame buffso_Raw_Data_In, the *)
(* watchdog thread that zeroes its speeds and restarts the TCP thread, and *)
(* the serial thread that drives the frame to the motor controller.        *)
(*                                                                         *)
(* None of the shared variables is protected (the lock calls around them   *)
(* are commented out in the source), so every load and every store of one  *)
(* is a step of its own.  The nine bytes of a command frame are grouped    *)
(* into the three fields that the code treats differently.                 *)
(***************************************************************************)
EXTENDS Integers, Sequences, FiniteSets

CONSTANTS
    Frames,         \* command frames a client may send, well-formed or not
    Crc(_, _),      \* crc16 of a frame with these speeds
    DatagramLens,   \* lengths, in fields, of the datagrams that arrive
    Limit,          \* the 3 of "cycles = 3"
    Debug,          \* argv[1]: 0 robot, 1 and 3 simulation, 2 silent
    PortOpens,      \* the outcomes of opening the serial port
    MaxSends,       \* bound: client messages, UDP and TCP together
    MaxConns,       \* bound: TCP connections
    MaxKeys,        \* bound: 'p' keys typed at the console
    MaxTcp          \* bound: incarnations of Thread_TCP

Left  == 0          \* bytes 0..3: the constant header and the left speed
Right == 1          \* bytes 4..5: the right speed
Check == 2          \* bytes 6..8: direction flags and crc16
FrameLen == 3
Field == 0 .. FrameLen - 1
Byte == 0 .. 255
Tcp == 1 .. MaxTcp
NoThread == 0

ASSUME ConstantsAssumption ==
    /\ Frames \subseteq [Field -> Byte]
    /\ DatagramLens \subseteq 0 .. FrameLen
    /\ Limit \in Nat \ {0}
    /\ Debug \in 0 .. 3
    /\ PortOpens \subseteq BOOLEAN
    /\ MaxSends \in Nat
    /\ MaxConns \in Nat
    /\ MaxKeys \in Nat
    /\ MaxTcp \in Nat \ {0}

VARIABLES
    watchdog,       \* watchdog periods since the last command
    cycles,         \* how many periods the watchdog waits
    speed1, speed2, \* console speeds, which the watchdog copies to the frame
    rawIn,          \* buffso_Raw_Data_In
    connected,      \* a TCP client has sent something
    recvOk,         \* recvMsgSize > 0 (a global, shared by the TCP threads)
    mutex,          \* owner of mutex_raw_out, or NoThread
    udpPc, udpTodo, \* Thread_TCP_Trooper_In and the fields memcpy has to copy
    rcvIN,          \* buffso_rcvIN
    tcpPc,          \* Thread_TCP, one program counter per incarnation
    tcpTodo, tcpIn, \* the fields recv() has still to copy, and their values
    thread0,        \* thread[0]: the current incarnation
    cancelled,      \* incarnations pthread_cancel was called on
    backlog,        \* a connection is waiting to be accepted
    conn, inbox,    \* the connection of clntSock and its unread fields
    dogPc, dogTmp,  \* Thread_Dog and the value it loaded from watchdog
    keyPc, keyTmp,  \* main() and the value it loaded from speed1
    drvPc, drvIdx,  \* Thread_RS232_33f and the next field driveraw() writes
    wire,           \* the speeds the motor controller received last
    alive,          \* the process has not been killed
    sends, conns,   \* messages and connections so far
    keys,           \* keys so far
    quiet           \* history: watchdog periods since the last operator store

cmdVars == <<watchdog, cycles, rawIn>>
udpVars == <<udpPc, udpTodo, rcvIN>>
tcpVars == <<tcpPc, tcpTodo, tcpIn, recvOk>>
lifeVars == <<thread0, cancelled>>
netVars == <<backlog, conn, inbox, conns>>
dogVars == <<dogPc, dogTmp>>
keyVars == <<keyPc, keyTmp, keys>>
drvVars == <<drvPc, drvIdx, wire>>
vars == <<cmdVars, speed1, speed2, connected, mutex, udpVars, tcpVars, lifeVars,
          netVars, dogVars, keyVars, drvVars, alive, sends, quiet>>

-----------------------------------------------------------------------------
Silent == [f \in Field |-> 0]

Speed == {Left, Right}
Stopped == [f \in Speed |-> 0]

\* The test of Thread_TCP_Trooper_In: the crc the datagram carries is the crc
\* of its bytes.
Valid(frame) == frame[Check] = Crc(frame[Left], frame[Right])

\* The calls of Thread_TCP that act on a pending pthread_cancel.  In particular
\* pthread_mutex_lock, "lock", does not.
CancelPoints == {"accept", "recv", "copy", "send", "simu", "close"}

UdpPcs == {"recv", "reset", "copy", "arm"}
TcpPcs == CancelPoints \cup
          {"unborn", "connected", "reset", "arm", "lock", "unlock",
           "loop", "hangup", "dead"}
DogPcs == {"top", "load", "store", "test", "zero1", "zero2", "left", "right",
           "check", "cancel", "create"}

\* quiet never needs to count further than this.
QuietBound == Limit + 2

Init ==
    /\ watchdog = 0 /\ cycles = 0
    /\ speed1 = 0 /\ speed2 = 0
    /\ rawIn = Silent
    /\ connected = FALSE /\ recvOk = FALSE
    /\ mutex = NoThread
    /\ udpPc = "recv" /\ udpTodo = {} /\ rcvIN = Silent
    /\ tcpPc = [t \in Tcp |-> IF t = 1 THEN "accept" ELSE "unborn"]
    /\ tcpTodo = [t \in Tcp |-> {}]
    /\ tcpIn = [t \in Tcp |-> Silent]
    /\ thread0 = 1 /\ cancelled = {}
    /\ backlog = FALSE /\ conn = "none" /\ inbox = <<>> /\ conns = 0
    /\ dogPc = "top" /\ dogTmp = 0
    /\ keyPc = "getchar" /\ keyTmp = 0 /\ keys = 0
    /\ drvPc = "open" /\ drvIdx = 0 /\ wire = Stopped
    /\ alive = TRUE
    /\ sends = 0
    /\ quiet = QuietBound

-----------------------------------------------------------------------------
(* Thread_TCP_Trooper_In: commands by UDP *)

udpOthers == <<speed1, speed2, connected, mutex, tcpVars, lifeVars, netVars,
               dogVars, keyVars, drvVars, alive>>

\* recvfrom writes the datagram over the start of buffso_rcvIN, which is not
\* cleared: the bytes after a short datagram are those of earlier ones.
UdpRecv(frame, len) ==
    /\ udpPc = "recv"
    /\ sends < MaxSends
    /\ sends' = sends + 1
    /\ rcvIN' = [f \in Field |-> IF f < len THEN frame[f] ELSE rcvIN[f]]
    /\ udpPc' = IF Valid(rcvIN') THEN "reset" ELSE "recv"
    /\ UNCHANGED <<udpTodo, cmdVars, quiet, udpOthers>>

UdpReset ==
    /\ udpPc = "reset"
    /\ watchdog' = 0
    /\ udpTodo' = Field
    /\ udpPc' = "copy"
    /\ quiet' = 0
    /\ UNCHANGED <<rcvIN, cycles, rawIn, sends, udpOthers>>

\* memcpy: the order in which the bytes become visible is not fixed.
UdpCopy(f) ==
    /\ udpPc = "copy"
    /\ f \in udpTodo
    /\ rawIn' = [rawIn EXCEPT ![f] = rcvIN[f]]
    /\ udpTodo' = udpTodo \ {f}
    /\ udpPc' = IF udpTodo' = {} THEN "arm" ELSE "copy"
    /\ quiet' = 0
    /\ UNCHANGED <<rcvIN, watchdog, cycles, sends, udpOthers>>

\* Mutant: the limit is one more than the period count allows for.
UdpArmLate ==
    /\ udpPc = "arm"
    /\ cycles' = Limit + 1
    /\ udpPc' = "recv"
    /\ quiet' = 0
    /\ UNCHANGED <<rcvIN, udpTodo, watchdog, rawIn, sends, udpOthers>>

UdpArm ==
    /\ udpPc = "arm"
    /\ cycles' = Limit
    /\ udpPc' = "recv"
    /\ quiet' = 0
    /\ UNCHANGED <<rcvIN, udpTodo, watchdog, rawIn, sends, udpOthers>>

UdpThread ==
    \/ \E frame \in Frames, len \in DatagramLens : UdpRecv(frame, len)
    \/ UdpReset
    \/ \E f \in Field : UdpCopy(f)
    \/ UdpArm

-----------------------------------------------------------------------------
(* Thread_TCP: commands by TCP.  A cancelled incarnation runs on until its   *)
(* next cancellation point and dies there.                                   *)

tcpOthers == <<speed1, speed2, udpVars, lifeVars, dogVars, keyVars, drvVars,
               sends>>

Goto(t, from, to) == tcpPc[t] = from /\ tcpPc' = [tcpPc EXCEPT ![t] = to]

TcpAccept(t) ==
    /\ t \notin cancelled
    /\ backlog
    /\ Goto(t, "accept", "recv")
    /\ backlog' = FALSE
    /\ conn' = "open"
    /\ UNCHANGED <<cmdVars, connected, mutex, tcpTodo, tcpIn, recvOk, inbox,
                   conns, alive, quiet, tcpOthers>>

\* A failed accept is only reported: recv on descriptor -1 fails at once and
\* the thread hangs up.
TcpAcceptFails(t) ==
    /\ t \notin cancelled
    /\ backlog
    /\ Goto(t, "accept", "hangup")
    /\ backlog' = FALSE
    /\ recvOk' = FALSE
    /\ UNCHANGED <<cmdVars, connected, mutex, tcpTodo, tcpIn, conn, inbox, conns,
                   alive, quiet, tcpOthers>>

\* recv takes whatever has arrived, up to a frame, whatever the frame boundary.
TcpRecv(t, n) ==
    /\ t \notin cancelled
    /\ n <= Len(inbox)
    /\ Goto(t, "recv", "copy")
    /\ tcpIn' = [tcpIn EXCEPT ![t] =
                    [f \in Field |-> IF f < n THEN inbox[f + 1] ELSE 0]]
    /\ tcpTodo' = [tcpTodo EXCEPT ![t] = 0 .. n - 1]
    /\ inbox' = SubSeq(inbox, n + 1, Len(inbox))
    /\ UNCHANGED <<cmdVars, connected, mutex, recvOk, backlog, conn, conns,
                   alive, quiet, tcpOthers>>

\* recv writes into buffso_Raw_Data_In itself: nothing checks the bytes.
TcpCopy(t, f) ==
    /\ tcpPc[t] = "copy"
    /\ f \in tcpTodo[t]
    /\ rawIn' = [rawIn EXCEPT ![f] = tcpIn[t][f]]
    /\ tcpTodo' = [tcpTodo EXCEPT ![t] = @ \ {f}]
    /\ IF tcpTodo'[t] = {}
       THEN /\ tcpPc' = [tcpPc EXCEPT ![t] = "connected"]
            /\ tcpIn' = [tcpIn EXCEPT ![t] = Silent]
            /\ recvOk' = TRUE
       ELSE UNCHANGED <<tcpPc, tcpIn, recvOk>>
    /\ quiet' = 0
    /\ UNCHANGED <<watchdog, cycles, connected, mutex, netVars, alive, tcpOthers>>

\* recv returns 0 at the end of the stream or -1 on a connection reset.
TcpRecvEnds(t) ==
    /\ t \notin cancelled
    /\ inbox = <<>>
    /\ conn \in {"eof", "reset"}
    /\ Goto(t, "recv", "hangup")
    /\ recvOk' = FALSE
    /\ UNCHANGED <<cmdVars, connected, mutex, tcpTodo, tcpIn, netVars, alive,
                   quiet, tcpOthers>>

TcpConnected(t) ==
    /\ Goto(t, "connected", CASE Debug = 0        -> "reset"
                              [] Debug \in {1, 3} -> "simu"
                              [] OTHER            -> "loop")
    /\ connected' = TRUE
    /\ UNCHANGED <<cmdVars, mutex, tcpTodo, tcpIn, recvOk, netVars, alive, quiet,
                   tcpOthers>>

TcpReset(t) ==
    /\ Goto(t, "reset", "arm")
    /\ watchdog' = 0
    /\ quiet' = 0
    /\ UNCHANGED <<cycles, rawIn, connected, mutex, tcpTodo, tcpIn, recvOk,
                   netVars, alive, tcpOthers>>

TcpArm(t) ==
    /\ Goto(t, "arm", "lock")
    /\ cycles' = Limit
    /\ quiet' = 0
    /\ UNCHANGED <<watchdog, rawIn, connected, mutex, tcpTodo, tcpIn, recvOk,
                   netVars, alive, tcpOthers>>

TcpLock(t) ==
    /\ mutex = NoThread
    /\ Goto(t, "lock", "send")
    /\ mutex' = t
    /\ UNCHANGED <<cmdVars, connected, tcpTodo, tcpIn, recvOk, netVars, alive,
                   quiet, tcpOthers>>

\* send to a peer that has closed draws a reset; send on a connection that was
\* reset raises SIGPIPE, which nothing ignores or handles.
Transmit ==
    /\ conn' = IF conn = "eof" THEN "reset" ELSE conn
    /\ alive' = (conn # "reset")
    /\ UNCHANGED <<backlog, inbox, conns>>

\* send may wait for ever: the peer need not read.
TcpSend(t) ==
    /\ t \notin cancelled
    /\ Goto(t, "send", "unlock")
    /\ Transmit
    /\ UNCHANGED <<cmdVars, connected, mutex, tcpTodo, tcpIn, recvOk, quiet,
                   tcpOthers>>

TcpUnlock(t) ==
    /\ Goto(t, "unlock", "loop")
    /\ mutex' = NoThread
    /\ UNCHANGED <<cmdVars, connected, tcpTodo, tcpIn, recvOk, netVars, alive,
                   quiet, tcpOthers>>

\* The simulation modes answer without the lock.
TcpSimu(t) ==
    /\ t \notin cancelled
    /\ Goto(t, "simu", "loop")
    /\ Transmit
    /\ UNCHANGED <<cmdVars, connected, mutex, tcpTodo, tcpIn, recvOk, quiet,
                   tcpOthers>>

TcpLoop(t) ==
    /\ Goto(t, "loop", IF recvOk THEN "recv" ELSE "hangup")
    /\ UNCHANGED <<cmdVars, connected, mutex, tcpTodo, tcpIn, recvOk, netVars,
                   alive, quiet, tcpOthers>>

TcpHangup(t) ==
    /\ Goto(t, "hangup", "close")
    /\ connected' = FALSE
    /\ UNCHANGED <<cmdVars, mutex, tcpTodo, tcpIn, recvOk, netVars, alive, quiet,
                   tcpOthers>>

TcpClose(t) ==
    /\ t \notin cancelled
    /\ Goto(t, "close", "accept")
    /\ conn' = "none" /\ inbox' = <<>>
    /\ UNCHANGED <<cmdVars, connected, mutex, tcpTodo, tcpIn, recvOk, backlog,
                   conns, alive, quiet, tcpOthers>>

\* The thread acts on pthread_cancel.  It registers no cleanup handler: what it
\* has locked stays locked.
TcpDie(t) ==
    /\ t \in cancelled
    /\ tcpPc[t] \in CancelPoints
    /\ tcpPc' = [tcpPc EXCEPT ![t] = "dead"]
    /\ tcpTodo' = [tcpTodo EXCEPT ![t] = {}]
    /\ tcpIn' = [tcpIn EXCEPT ![t] = Silent]
    /\ UNCHANGED <<cmdVars, connected, mutex, recvOk, netVars, alive, quiet,
                   tcpOthers>>

TcpThread(t) ==
    \/ TcpAccept(t)
    \/ TcpAcceptFails(t)
    \/ \E n \in 1 .. FrameLen : TcpRecv(t, n)
    \/ \E f \in Field : TcpCopy(t, f)
    \/ TcpRecvEnds(t)
    \/ TcpConnected(t)
    \/ TcpReset(t)
    \/ TcpArm(t)
    \/ TcpLock(t)
    \/ TcpSend(t)
    \/ TcpUnlock(t)
    \/ TcpSimu(t)
    \/ TcpLoop(t)
    \/ TcpHangup(t)
    \/ TcpClose(t)
    \/ TcpDie(t)

-----------------------------------------------------------------------------
(* Thread_Dog.  The comparisons of watchdog with cycles are single steps:    *)
(* others only set watchdog to 0 and cycles to Limit, so loading the two one *)
(* after the other decides as one of the two instants would.                 *)

dogOthers == <<cycles, mutex, udpVars, tcpVars, keyVars, drvVars, alive, sends>>

DogGoto(from, to) == dogPc = from /\ dogPc' = to

\* The end of an iteration: usleep(500000) is one watchdog period.
Period == quiet' = IF quiet < QuietBound THEN quiet + 1 ELSE quiet

\* Mutant: counts once more when the count has reached cycles.
DogTopInclusive ==
    /\ DogGoto("top", IF watchdog <= cycles THEN "load" ELSE "test")
    /\ UNCHANGED <<dogTmp, watchdog, rawIn, speed1, speed2, connected, lifeVars,
                   netVars, quiet, dogOthers>>

DogTop ==
    /\ DogGoto("top", IF watchdog < cycles THEN "load" ELSE "test")
    /\ UNCHANGED <<dogTmp, watchdog, rawIn, speed1, speed2, connected, lifeVars,
                   netVars, quiet, dogOthers>>

\* watchdog = watchdog + 1 is a load and a store, and a reset of watchdog
\* between the two is lost.
DogLoad ==
    /\ DogGoto("load", "store")
    /\ dogTmp' = watchdog
    /\ UNCHANGED <<watchdog, rawIn, speed1, speed2, connected, lifeVars, netVars,
                   quiet, dogOthers>>

DogStore ==
    /\ DogGoto("store", "top")
    /\ watchdog' = dogTmp + 1
    /\ dogTmp' = 0
    /\ Period
    /\ UNCHANGED <<rawIn, speed1, speed2, connected, lifeVars, netVars, dogOthers>>

DogTest ==
    /\ \/ watchdog = cycles /\ DogGoto("test", "zero1") /\ UNCHANGED quiet
       \/ watchdog # cycles /\ DogGoto("test", "top") /\ Period
    /\ UNCHANGED <<dogTmp, watchdog, rawIn, speed1, speed2, connected, lifeVars,
                   netVars, dogOthers>>

\* Mutant: leaves the console's left speed alone.
DogZero1Forgets ==
    /\ DogGoto("zero1", "zero2")
    /\ UNCHANGED <<dogTmp, watchdog, rawIn, speed1, speed2, connected, lifeVars,
                   netVars, quiet, dogOthers>>

DogZero1 ==
    /\ DogGoto("zero1", "zero2")
    /\ speed1' = 0
    /\ UNCHANGED <<dogTmp, watchdog, rawIn, speed2, connected, lifeVars, netVars,
                   quiet, dogOthers>>

DogZero2 ==
    /\ DogGoto("zero2", "left")
    /\ speed2' = 0
    /\ UNCHANGED <<dogTmp, watchdog, rawIn, speed1, connected, lifeVars, netVars,
                   quiet, dogOthers>>

\* Bytes 2..5 of the frame; the crc, in Check, is not computed again.
DogLeft ==
    /\ DogGoto("left", "right")
    /\ rawIn' = [rawIn EXCEPT ![Left] = speed1]
    /\ UNCHANGED <<dogTmp, watchdog, speed1, speed2, connected, lifeVars, netVars,
                   quiet, dogOthers>>

\* Mutant: both speeds go to the left wheel.
DogRightAgain ==
    /\ DogGoto("right", "check")
    /\ rawIn' = [rawIn EXCEPT ![Left] = speed2]
    /\ UNCHANGED <<dogTmp, watchdog, speed1, speed2, connected, lifeVars, netVars,
                   quiet, dogOthers>>

DogRight ==
    /\ DogGoto("right", "check")
    /\ rawIn' = [rawIn EXCEPT ![Right] = speed2]
    /\ UNCHANGED <<dogTmp, watchdog, speed1, speed2, connected, lifeVars, netVars,
                   quiet, dogOthers>>

DogCheck ==
    /\ \/ connected /\ DogGoto("check", "cancel") /\ UNCHANGED quiet
       \/ ~connected /\ DogGoto("check", "top") /\ Period
    /\ connected' = FALSE
    /\ UNCHANGED <<dogTmp, watchdog, rawIn, speed1, speed2, lifeVars, netVars,
                   dogOthers>>

\* pthread_cancel, then the sockets are closed under the thread's feet.
DogCancel ==
    /\ DogGoto("cancel", "create")
    /\ cancelled' = cancelled \cup {thread0}
    /\ backlog' = FALSE /\ conn' = "none" /\ inbox' = <<>>
    /\ UNCHANGED <<dogTmp, watchdog, rawIn, speed1, speed2, connected, thread0,
                   conns, quiet, dogOthers>>

\* After sleep(4).  Nobody joins the old thread.
DogCreate ==
    /\ DogGoto("create", "top")
    /\ thread0 < MaxTcp
    /\ thread0' = thread0 + 1
    /\ tcpPc' = [tcpPc EXCEPT ![thread0'] = "accept"]
    /\ Period
    /\ UNCHANGED <<dogTmp, cmdVars, speed1, speed2, connected, mutex, cancelled,
                   netVars, udpVars, tcpTodo, tcpIn, recvOk, keyVars, drvVars,
                   alive, sends>>

\* pthread_create fails: the process exits.
DogCreateFails ==
    /\ dogPc = "create"
    /\ alive' = FALSE
    /\ UNCHANGED <<dogVars, cmdVars, speed1, speed2, connected, mutex, lifeVars,
                   netVars, udpVars, tcpVars, keyVars, drvVars, sends, quiet>>

DogThread ==
    \/ DogTop \/ DogLoad \/ DogStore \/ DogTest \/ DogZero1 \/ DogZero2
    \/ DogLeft \/ DogRight \/ DogCheck \/ DogCancel \/ DogCreate

-----------------------------------------------------------------------------
(* main(): getchar, and speed1 += 10 on a 'p' *)

keyOthers == <<cmdVars, speed2, connected, mutex, udpVars, tcpVars, lifeVars,
               netVars, dogVars, drvVars, alive, sends>>

KeyLoad ==
    /\ keyPc = "getchar"
    /\ keys < MaxKeys
    /\ keys' = keys + 1
    /\ keyTmp' = speed1
    /\ keyPc' = "store"
    /\ UNCHANGED <<speed1, quiet, keyOthers>>

KeyStore ==
    /\ keyPc = "store"
    /\ speed1' = (keyTmp + 10) % 256
    /\ keyTmp' = 0
    /\ keyPc' = "getchar"
    /\ quiet' = 0
    /\ UNCHANGED <<keys, keyOthers>>

MainThread == KeyLoad \/ KeyStore

-----------------------------------------------------------------------------
(* Thread_RS232_33f *)

drvOthers == <<cmdVars, connected, mutex, udpVars, tcpVars, lifeVars, netVars,
               dogVars, keyVars, alive, sends, quiet>>

\* The speeds are reset and a stop frame is sent.  When openrs232 fails it
\* returns 0: every write is dropped, and readrs232 returns -1, which the
\* synchronisation loop of GetRS232Motor33f takes for a byte, for ever.
DriveOpen(ok) ==
    /\ drvPc = "open"
    /\ drvPc' = IF ok THEN "write" ELSE "spin"
    /\ wire' = Stopped
    /\ speed1' = 0 /\ speed2' = 0
    /\ UNCHANGED <<drvIdx, drvOthers>>

\* driveraw reads the shared frame byte by byte while it is being written.
DriveField ==
    /\ drvPc = "write"
    /\ wire' = [f \in Speed |-> IF f = drvIdx THEN rawIn[f] ELSE wire[f]]
    /\ drvIdx' = (drvIdx + 1) % FrameLen
    /\ drvPc' = IF drvIdx' = 0 THEN "read" ELSE "write"
    /\ UNCHANGED <<speed1, speed2, drvOthers>>

\* Mutant: driveraw is called once, before the loop.
TelemetryOnly ==
    /\ drvPc = "read"
    /\ UNCHANGED <<drvPc, drvIdx, wire, speed1, speed2, drvOthers>>

\* GetRS232Motor33f returns once the controller has sent enough bytes.
Telemetry ==
    /\ drvPc = "read"
    /\ drvPc' = "write"
    /\ UNCHANGED <<drvIdx, wire, speed1, speed2, drvOthers>>

DriveThread ==
    \/ \E ok \in PortOpens : DriveOpen(ok)
    \/ DriveField
    \/ Telemetry

-----------------------------------------------------------------------------
(* The TCP client and the network, as the calls above see them.             *)

netOthers == <<cmdVars, speed1, speed2, connected, mutex, udpVars, tcpVars,
               lifeVars, dogVars, keyVars, drvVars, alive, quiet>>

ClientConnect ==
    /\ thread0 \notin cancelled
    /\ ~backlog /\ conn = "none"
    /\ conns < MaxConns
    /\ conns' = conns + 1
    /\ backlog' = TRUE
    /\ UNCHANGED <<conn, inbox, sends, netOthers>>

ClientSend(frame) ==
    /\ conn = "open"
    /\ sends < MaxSends
    /\ sends' = sends + 1
    /\ inbox' = inbox \o [i \in 1 .. FrameLen |-> frame[i - 1]]
    /\ UNCHANGED <<backlog, conn, conns, netOthers>>

ClientClose ==
    /\ conn = "open"
    /\ conn' = "eof"
    /\ UNCHANGED <<backlog, inbox, conns, sends, netOthers>>

Client ==
    \/ ClientConnect
    \/ \E frame \in Frames : ClientSend(frame)
    \/ ClientClose

-----------------------------------------------------------------------------
Next ==
    /\ alive
    /\ \/ UdpThread
       \/ \E t \in Tcp : TcpThread(t)
       \/ DogThread
       \/ DogCreateFails
       \/ MainThread
       \/ DriveThread
       \/ Client

Spec == Init /\ [][Next]_vars

\* The scheduler runs the watchdog and the serial thread, and the controller
\* keeps sending telemetry.  Nothing is assumed of the client (it need not send,
\* close, or read what is sent to it) or of the threads that serve it.
Fairness ==
    /\ WF_vars(alive /\ DogThread)
    /\ WF_vars(alive /\ DriveThread)

FairSpec == Spec /\ Fairness

-----------------------------------------------------------------------------
TypeCmd ==
    /\ watchdog \in 0 .. Limit /\ cycles \in {0, Limit}
    /\ rawIn \in [Field -> Byte]
    /\ quiet \in 0 .. QuietBound

TypeKey ==
    /\ speed1 \in Byte /\ speed2 \in Byte
    /\ keyPc \in {"getchar", "store"} /\ keyTmp \in Byte
    /\ keys \in 0 .. MaxKeys

TypeUdp ==
    /\ udpPc \in UdpPcs /\ udpTodo \in SUBSET Field
    /\ rcvIN \in [Field -> Byte]
    /\ sends \in 0 .. MaxSends

TypeTcp ==
    /\ tcpPc \in [Tcp -> TcpPcs] /\ tcpTodo \in [Tcp -> SUBSET Field]
    /\ tcpIn \in [Tcp -> [Field -> Byte]]
    /\ thread0 \in Tcp /\ cancelled \in SUBSET Tcp
    /\ mutex \in Tcp \cup {NoThread}
    /\ connected \in BOOLEAN /\ recvOk \in BOOLEAN /\ alive \in BOOLEAN

TypeNet ==
    /\ backlog \in BOOLEAN /\ conn \in {"none", "open", "eof", "reset"}
    /\ inbox \in Seq(Byte)
    /\ conns \in 0 .. MaxConns

TypeDog == dogPc \in DogPcs /\ dogTmp \in 0 .. Limit

TypeDrv ==
    /\ drvPc \in {"open", "write", "read", "spin"} /\ drvIdx \in Field
    /\ wire \in [Speed -> Byte]

\* Type invariant.
TypeOK ==
    TypeCmd /\ TypeKey /\ TypeUdp /\ TypeTcp /\ TypeNet /\ TypeDog /\ TypeDrv

Moving(frame) == frame[Left] # 0 \/ frame[Right] # 0

\* Thread_Dog compares watchdog with cycles for equality, so a count above
\* cycles would switch the watchdog off for good.  Although its increment races
\* with the resets of the command threads, the count never passes cycles.
WatchdogBounded == watchdog <= cycles

\* Once Limit + 2 watchdog periods have ended without a command thread touching
\* the command state, the shared frame is a stop, however the last commands, the
\* keys, the lost increments and the restart of Thread_TCP interleaved.
StopWithinLimit == quiet >= Limit + 2 => ~Moving(rawIn)

\* The watchdog is a dead-man's switch (DeadMan.tla): it stops the robot in
\* time, and only an operator's store makes it move again.
Switch == INSTANCE DeadMan WITH Deadline <- Limit + 2,
                                age <- quiet, moving <- Moving(rawIn)
ImplementsDeadMan == Switch!Spec

\* A server whose operators fall silent ends up driving a stop to the motors
\* for good, unless SIGPIPE or a failed pthread_create ended it, or the serial port
\* never opened.
StopsEventually == <>[](~alive \/ drvPc = "spin" \/ ~Moving(wire))

\* Thread_TCP is written to "Run forever", and it locks mutex_raw_out for every
\* message: no thread that is gone holds that lock.
LockOwnerRuns == mutex # NoThread => tcpPc[mutex] # "dead"

\* What is left of that: a cancelled Thread_TCP may run on beside the one that replaces
\* it, while the operator's next connection is served, but the two never answer at the
\* same time, and only pthread_cancel, inside send, takes a thread away from its lock.
Answering == {"send", "unlock"}

AnswersAlone ==
    /\ \A t \in Tcp : tcpPc[t] \in Answering => mutex = t
    /\ mutex # NoThread =>
           tcpPc[mutex] \in Answering \/ (tcpPc[mutex] = "dead" /\ mutex \in cancelled)

=============================================================================
