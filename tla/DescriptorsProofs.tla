------------------------- MODULE DescriptorsProofs --------------------------
(***************************************************************************)
(* Proofs about Descriptors, for any number of restarts of Thread_TCP and  *)
(* of clients: its type invariant, and that after orderly restarts the     *)
(* serial port is still the serial port, nothing is left open, and the     *)
(* server listens on its port.                                             *)
(***************************************************************************)
EXTENDS Descriptors, FiniteSetTheorems, WellFoundedInduction, TLAPS

(***************************************************************************)
(* In every state, orderly or not, there is room for another descriptor:   *)
(* whatever the threads forget to close, they open a bounded number.       *)
(***************************************************************************)
Used == {n \in Fds : fd[n] # "free"}
UdpOpened == {u \in Udp : udpPc[u] = "run"}
SerialOpened ==
    CASE serialPc = "open1" -> 0 [] serialPc \in {"close", "open2"} -> 1 [] OTHER -> 2
TcpOpened == {t \in Tcp : tcpPc[t] \notin {"unborn", "socket"}}

Room ==
    Cardinality(Used) <=
        3 + Cardinality(UdpOpened) + SerialOpened + Cardinality(TcpOpened) + conns

\* The threads to come do not run.
ToCome == \A t \in Tcp : t > thread0 => tcpPc[t] = "unborn"

(***************************************************************************)
(* The rest of the inductive invariant is about orderly restarts.  There   *)
(* is then one Thread_TCP that opens and closes descriptors, the current   *)
(* one; it stops when it is cancelled, and what it had open is closed by   *)
(* the watchdog before the next one starts.                                *)
(***************************************************************************)
Listening == {"socket", "bound", "listen"}
HasClient == Serving \cup {"hangup", "close"}

\* The current thread is at one of these places and was not cancelled.
At(S) == thread0 \notin cancelled /\ tcpPc[thread0] \in S

\* The threads that were cancelled can only die.  Nothing was restarted before the
\* serial thread was done with opening the port.
Threads ==
    /\ \A t \in Tcp :
          /\ t \in cancelled <=> (t < thread0 \/ (t = thread0 /\ dogPc \notin {"check", "cancel"}))
          /\ t \in cancelled => tcpPc[t] \in Serving \cup {"dead"}
    /\ thread0 \notin cancelled => tcpPc[thread0] \notin {"unborn", "dead"}
    /\ dogPc # "check" \/ thread0 > 1 => serialPc \in {"drive", "spin"}

\* The serial port, if open, is the one descriptor that hUSB1 names.
Port ==
    /\ serialPc \in {"open1", "close", "open2"} => fd[0] = "console"
    /\ \A n \in Fds : fd[n] = "serial" => n = hUSB1 /\ serialPc \in {"close", "drive"}
    /\ serialPc = "close" => hUSB1 = 0 \/ fd[hUSB1] = "serial"
    /\ serialPc = "drive" => hUSB1 # 0 /\ fd[hUSB1] = "serial"

\* There are at most as many UDP sockets as UDP threads that have opened theirs.
UdpFew ==
    /\ \E p, q \in Fds : \A n \in Fds : fd[n] = "udp" => n \in {p, q}
    /\ (\E u \in Udp : udpPc[u] = "socket") => \E p \in Fds : \A n \in Fds : fd[n] = "udp" => n = p
    /\ (\A u \in Udp : udpPc[u] = "socket") => \A n \in Fds : fd[n] # "udp"

\* A socket that listens, or will, is the one that socket_tcp names.  While the watchdog
\* closes descriptors the number may be 0, closed already, and even be a UDP socket's.
Listener ==
    /\ \A n \in Fds : fd[n] \in Listening => n = socket_tcp
    /\ At({"socket"}) \/ dogPc = "create" => \A n \in Fds : fd[n] \notin Listening
    /\ At({"bind"}) => fd[socket_tcp] = "socket"
    /\ At({"listen"}) => fd[socket_tcp] \in {"bound", "listen"}
    /\ At({"accept", "store"} \cup HasClient) \/ dogPc \in {"clntSock", "servSock"} =>
          fd[socket_tcp] = "listen"
    /\ dogPc = "socket_tcp" => fd[socket_tcp] \in {"listen", "free", "udp"}

\* The one connection is what accept returned to the current thread, in tmp or in
\* clntSock, until the thread or the watchdog has closed it.
Client ==
    /\ \A n \in Fds : fd[n] = "conn" =>
          \/ At({"store"}) /\ n = tcpTmp[thread0]
          \/ (At(HasClient) \/ dogPc = "clntSock") /\ n = clntSock
    /\ At({"store"}) => tcpTmp[thread0] = -1 \/ Is(tcpTmp[thread0], "conn")
    /\ At(HasClient) \/ dogPc = "clntSock" => clntSock = -1 \/ Is(clntSock, "conn")

Good == Threads /\ Port /\ UdpFew /\ Listener /\ Client

IInv == TypeOK /\ Room /\ ToCome /\ (Orderly => Good)
-----------------------------------------------------------------------------
(* A new descriptor. *)

\* The least of a set of numbers, as FiniteSetsExt defines it, is one of them.
LEMMA LeastNumber ==
    ASSUME NEW S \in SUBSET Nat, S # {}
    PROVE  Min(S) \in S
<1>1. PICK x \in S : \A y \in S : ~(<<y, x>> \in OpToRel(<, Nat))
  BY NatLessThanWellFounded, WFMin
<1>2. ASSUME NEW y \in S PROVE x <= y
  <2>1. <<y, x>> \in Nat \X Nat
    OBVIOUS
  <2>2. ~(<<y, x>>[1] < <<y, x>>[2])
    BY <1>1, <2>1 DEF OpToRel
  <2> QED BY <2>2
<1> QED BY <1>2 DEF Min

\* Both sides of Room are numbers, and the right one is at most MaxFd.
LEMMA Counts ==
    ASSUME TypeOK
    PROVE  /\ IsFiniteSet(Used) /\ Cardinality(Used) \in Nat
           /\ IsFiniteSet(UdpOpened) /\ Cardinality(UdpOpened) \in 0 .. 2
           /\ IsFiniteSet(TcpOpened) /\ Cardinality(TcpOpened) \in 0 .. MaxTcp
           /\ SerialOpened \in 0 .. 2
<1> USE DescriptorsAssumption
<1>1. IsFiniteSet(Fds) /\ IsFiniteSet(Tcp) /\ Cardinality(Tcp) = MaxTcp
  BY FS_Interval DEF Fds, Tcp
<1>2. IsFiniteSet({"in"}) /\ Cardinality({"in"}) = 1
  BY FS_Singleton
<1>3. IsFiniteSet({"in"} \cup {"out"}) /\ Cardinality({"in"} \cup {"out"}) = 2
  BY <1>2, FS_AddElement
<1>4. {"in"} \cup {"out"} = Udp
  BY DEF Udp
<1>5. IsFiniteSet(Udp) /\ Cardinality(Udp) = 2
  BY <1>3, <1>4
<1>6. Used \in SUBSET Fds /\ UdpOpened \in SUBSET Udp /\ TcpOpened \in SUBSET Tcp
  BY DEF Used, UdpOpened, TcpOpened
<1>7. IsFiniteSet(Used) /\ Cardinality(Used) \in Nat
  BY <1>1, <1>6, FS_Subset, FS_CardinalityType
<1>8. /\ IsFiniteSet(UdpOpened) /\ Cardinality(UdpOpened) <= 2
      /\ Cardinality(UdpOpened) \in Nat
  BY <1>5, <1>6, FS_Subset, FS_CardinalityType
<1>9. /\ IsFiniteSet(TcpOpened) /\ Cardinality(TcpOpened) <= MaxTcp
      /\ Cardinality(TcpOpened) \in Nat
  BY <1>1, <1>6, FS_Subset, FS_CardinalityType
<1>10. SerialOpened \in 0 .. 2
  BY DEF SerialOpened, TypeOK
<1> QED BY <1>7, <1>8, <1>9, <1>10

\* So the number the kernel gives was free.
LEMMA LowestIsFree ==
    ASSUME TypeOK, Room
    PROVE  Lowest \in Fds /\ fd[Lowest] = "free"
<1> DEFINE Free == {n \in Fds : fd[n] = "free"}
<1>1. IsFiniteSet(Fds) /\ Cardinality(Fds) = MaxFd + 1
  BY FS_Interval, DescriptorsAssumption DEF Fds
<1>2. Cardinality(Used) <= 7 + MaxTcp + MaxConns
  BY Counts, DescriptorsAssumption DEF Room, TypeOK
<1>3. Used # Fds
  BY <1>1, <1>2, Counts, DescriptorsAssumption
<1>4. Free # {} /\ Free \in SUBSET Nat
  BY <1>3 DEF Used, Fds
<1>5. Min(Free) \in Free
  BY <1>4, LeastNumber
<1> QED BY <1>5 DEF Lowest

-----------------------------------------------------------------------------
(* The type invariant. *)

\* What opening and closing do to the table of descriptors.
LEMMA Table ==
    ASSUME TypeOK, Room
    PROVE  /\ \A kind \in Kinds : Opens(kind) => fd' \in [Fds -> Kinds]
           /\ \A n : Closes(n) => fd' \in [Fds -> Kinds]
BY LowestIsFree DEF TypeOK, Opens, Closes, Kinds

LEMMA SerialTypes == ASSUME TypeOK, Room, SerialThread PROVE TypeOK'
<1> USE Table, LowestIsFree DEF TypeOK, serialOthers, tcpVars
<1>1. ASSUME NEW ok \in BOOLEAN, SerialOpen("open1", "close", ok) PROVE TypeOK'
  <2>1. fd' \in [Fds -> Kinds] /\ hUSB1' \in Fds
    BY <1>1, DescriptorsAssumption DEF SerialOpen, openrs232, Kinds, Fds
  <2> QED BY <1>1, <2>1 DEF SerialOpen
<1>2. ASSUME NEW ok \in BOOLEAN, SerialOpen("open2", "drive", ok) PROVE TypeOK'
  <2>1. fd' \in [Fds -> Kinds] /\ hUSB1' \in Fds
    BY <1>2, DescriptorsAssumption DEF SerialOpen, openrs232, Kinds, Fds
  <2> QED BY <1>2, <2>1 DEF SerialOpen
<1>3. CASE SerialClose
  <2>1. fd' \in [Fds -> Kinds]
    BY <1>3 DEF SerialClose
  <2>2. early' \in BOOLEAN
    BY <1>3 DEF SerialClose
  <2> QED BY <1>3, <2>1, <2>2 DEF SerialClose
<1> QED BY <1>1, <1>2, <1>3 DEF SerialThread

\* The places of Thread_TCP.
LEMMA Places ==
    ASSUME NEW t \in Tcp, TypeOK,
           NEW to \in CancelPoints \cup {"unborn", "socket", "bind", "listen", "store",
                                         "connected", "hangup", "dead"},
           tcpPc' = [tcpPc EXCEPT ![t] = to]
    PROVE  tcpPc' \in [Tcp -> CancelPoints \cup {"unborn", "socket", "bind", "listen", "store",
                                                 "connected", "hangup", "dead"}]
BY DEF TypeOK

LEMMA TcpTypes == ASSUME TypeOK, Room, NEW t \in Tcp, TcpThread(t) PROVE TypeOK'
<1> USE Places, LowestIsFree DEF TypeOK, tcpOthers, dogVars, numbers, Goto, CancelPoints
<1>1. CASE TcpSocket(t)
  <2>1. fd' \in [Fds -> Kinds]
    BY <1>1, Table DEF TcpSocket, Kinds
  <2> QED BY <1>1, <2>1 DEF TcpSocket
<1>2. CASE TcpBind(t)
  <2>1. fd' \in [Fds -> Kinds]
    BY <1>2 DEF TcpBind, Kinds
  <2> QED BY <1>2, <2>1 DEF TcpBind
<1>3. CASE TcpListen(t)
  <2>1. fd' \in [Fds -> Kinds]
    BY <1>3 DEF TcpListen, Kinds
  <2> QED BY <1>3, <2>1 DEF TcpListen
<1>4. CASE TcpAccept(t)
  <2>1. fd' \in [Fds -> Kinds]
    BY <1>4, Table DEF TcpAccept, Kinds
  <2>2. conns \in 0 .. MaxConns /\ conns < MaxConns /\ conns' = conns + 1
    BY <1>4 DEF TcpAccept
  <2>3. conns' \in 0 .. MaxConns
    <3> HIDE Places, LowestIsFree
    <3> QED BY <2>2, DescriptorsAssumption
  <2> QED BY <1>4, <2>1, <2>3 DEF TcpAccept
<1>5. CASE TcpAcceptFails(t)
  BY <1>5 DEF TcpAcceptFails
<1>6. CASE TcpStore(t)
  <2>1. 0 \in Fds
    BY DescriptorsAssumption DEF Fds
  <2>2. tcpTmp' \in [Tcp -> Fds \cup {-1}]
    BY <1>6, <2>1 DEF TcpStore
  <2> QED BY <1>6, <2>2 DEF TcpStore
<1>7. CASE TcpRecv(t)
  BY <1>7 DEF TcpRecv
<1>8. CASE TcpConnected(t)
  BY <1>8 DEF TcpConnected
<1>9. CASE TcpSend(t)
  BY <1>9 DEF TcpSend
<1>10. CASE TcpHangup(t)
  BY <1>10 DEF TcpHangup
<1>11. CASE TcpClose(t)
  <2>1. fd' \in [Fds -> Kinds]
    BY <1>11, Table DEF TcpClose
  <2> QED BY <1>11, <2>1 DEF TcpClose
<1>12. CASE TcpDie(t)
  BY <1>12 DEF TcpDie
<1> QED
  BY <1>1, <1>2, <1>3, <1>4, <1>5, <1>6, <1>7, <1>8, <1>9, <1>10, <1>11, <1>12
  DEF TcpThread

LEMMA DogTypes == ASSUME TypeOK, Room, DogThread PROVE TypeOK'
<1> USE DEF TypeOK, dogOthers, numbers, DogGoto
<1>1. CASE DogCheck
  <2>1. early' \in BOOLEAN
    BY <1>1 DEF DogCheck
  <2> QED BY <1>1, <2>1 DEF DogCheck
<1>2. CASE DogCancel
  <2>1. late' \in BOOLEAN
    BY <1>2 DEF DogCancel
  <2> QED BY <1>2, <2>1 DEF DogCancel
<1>3. CASE DogCloseAll
  <2>1. fd' \in [Fds -> Kinds]
    BY <1>3, Table DEF DogCloseAll, DogClose
  <2> QED BY <1>3, <2>1 DEF DogCloseAll, DogClose
<1>4. CASE DogCreate
  <2>1. thread0' \in Tcp
    BY <1>4, DescriptorsAssumption DEF DogCreate, Tcp
  <2> QED BY <1>4, <2>1, Places DEF DogCreate
<1> QED BY <1>1, <1>2, <1>3, <1>4 DEF DogThread

LEMMA NextTypes == ASSUME TypeOK, Room, [Next]_vars PROVE TypeOK'
<1>1. ASSUME NEW u \in Udp, UdpSocket(u) PROVE TypeOK'
  <2>1. fd' \in [Fds -> Kinds]
    BY <1>1, Table DEF UdpSocket, Kinds
  <2> QED BY <1>1, <2>1 DEF UdpSocket, TypeOK, numbers, tcpVars, dogVars
<1>2. CASE Interrupt
  <2>1. fd' \in [Fds -> Kinds]
    BY <1>2 DEF Interrupt, TypeOK, Kinds
  <2> QED BY <1>2, <2>1 DEF Interrupt, TypeOK, numbers, tcpVars, dogVars
<1>3. CASE UNCHANGED vars
  BY <1>3 DEF vars, TypeOK, numbers, tcpVars, dogVars
<1> QED BY <1>1, <1>2, <1>3, SerialTypes, TcpTypes, DogTypes DEF Next

-----------------------------------------------------------------------------
(* There is always room. *)

LEMMA OpensOne ==
    ASSUME TypeOK, Room, NEW kind \in Kinds \ {"free"}, Opens(kind)
    PROVE  Cardinality(Used') = Cardinality(Used) + 1
<1>1. Used' = Used \cup {Lowest} /\ Lowest \notin Used
  BY LowestIsFree DEF Used, Opens, TypeOK
<1>2. Cardinality(Used \cup {Lowest}) = Cardinality(Used) + 1
  BY <1>1, Counts, FS_AddElement
<1> QED BY <1>1, <1>2

LEMMA OpensNone ==
    ASSUME TypeOK, Used' \subseteq Used
    PROVE  Cardinality(Used') <= Cardinality(Used)
<1>1. Used' \in SUBSET Used
  OBVIOUS
<1> QED BY <1>1, Counts, FS_Subset

\* A step that changes none of the counts of what was opened may close something.
LEMMA RoomStays ==
    ASSUME TypeOK, Room, TypeOK', Used' \subseteq Used,
           UdpOpened' = UdpOpened, TcpOpened' = TcpOpened, SerialOpened' = SerialOpened,
           conns' = conns
    PROVE  Room'
<1>1. Cardinality(Used') <= Cardinality(Used) /\ Cardinality(Used') \in Nat
  BY OpensNone, Counts, FS_CardinalityType, FS_Subset
<1> QED BY <1>1, Counts DEF Room, TypeOK

LEMMA SerialRoom == ASSUME TypeOK, Room, TypeOK', SerialThread PROVE Room'
<1>1. UdpOpened' = UdpOpened /\ TcpOpened' = TcpOpened /\ conns' = conns
  BY DEF SerialThread, SerialOpen, SerialClose, serialOthers, tcpVars, UdpOpened, TcpOpened
<1>2. CASE SerialClose
  <2>1. Used' \subseteq Used
    BY <1>2 DEF SerialClose, Closes, Used, TypeOK
  <2>2. SerialOpened' = SerialOpened
    BY <1>2 DEF SerialClose, SerialOpened
  <2> QED BY <1>1, <2>1, <2>2, RoomStays
<1>3. ASSUME NEW ok \in BOOLEAN,
             SerialOpen("open1", "close", ok) \/ SerialOpen("open2", "drive", ok)
      PROVE  Room'
  <2>1. SerialOpened' = SerialOpened + 1
    <3>1. CASE SerialOpen("open1", "close", ok)
      BY <3>1 DEF SerialOpen, SerialOpened
    <3>2. CASE SerialOpen("open2", "drive", ok)
      BY <3>2 DEF SerialOpen, SerialOpened
    <3> QED BY <1>3, <3>1, <3>2
  <2>2. Cardinality(Used') <= Cardinality(Used) + 1
    <3>1. CASE ok
      <4>1. Opens("serial")
        BY <1>3, <3>1 DEF SerialOpen, openrs232
      <4> QED BY <4>1, OpensOne, Counts DEF Kinds
    <3>2. CASE ~ok
      <4>1. Used' = Used
        BY <1>3, <3>2 DEF SerialOpen, openrs232, Used
      <4> QED BY <4>1, Counts
    <3> QED BY <3>1, <3>2
  <2>3. Cardinality(Used') \in Nat
    <3>1. IsFiniteSet(Fds) /\ Used' \in SUBSET Fds
      BY FS_Interval, DescriptorsAssumption DEF Fds, Used
    <3> QED BY <3>1, FS_Subset, FS_CardinalityType
  <2> QED BY <1>1, <2>1, <2>2, <2>3, Counts DEF Room, TypeOK
<1> QED BY <1>2, <1>3 DEF SerialThread

LEMMA TcpRoom == ASSUME TypeOK, Room, TypeOK', NEW t \in Tcp, TcpThread(t) PROVE Room'
<1> USE DEF TypeOK, tcpOthers, dogVars, numbers, Goto
<1>1. UdpOpened' = UdpOpened /\ SerialOpened' = SerialOpened
  BY DEF TcpThread, TcpSocket, TcpBind, TcpListen, TcpAccept, TcpAcceptFails, TcpStore, TcpRecv,
         TcpConnected, TcpSend, TcpHangup, TcpClose, TcpDie, UdpOpened, SerialOpened
<1>2. CASE TcpSocket(t)
  <2>1. Cardinality(Used') = Cardinality(Used) + 1
    BY <1>2, OpensOne DEF TcpSocket, Kinds
  <2>2. TcpOpened' = TcpOpened \cup {t} /\ t \notin TcpOpened
    BY <1>2 DEF TcpSocket, TcpOpened
  <2>3. Cardinality(TcpOpened \cup {t}) = Cardinality(TcpOpened) + 1
    BY <2>2, Counts, FS_AddElement
  <2>4. conns' = conns
    BY <1>2 DEF TcpSocket
  <2> HIDE DEF TypeOK
  <2> QED BY <1>1, <2>1, <2>2, <2>3, <2>4, Counts DEF Room, TypeOK
<1>3. CASE TcpAccept(t)
  <2>1. Cardinality(Used') = Cardinality(Used) + 1
    BY <1>3, OpensOne DEF TcpAccept, Kinds
  <2>2. TcpOpened' = TcpOpened /\ conns' = conns + 1
    BY <1>3 DEF TcpAccept, TcpOpened
  <2> HIDE DEF TypeOK
  <2> QED BY <1>1, <2>1, <2>2, Counts DEF Room, TypeOK
<1>4. ASSUME ~TcpSocket(t), ~TcpAccept(t) PROVE Room'
  <2>1. TcpOpened' = TcpOpened
    BY <1>4 DEF TcpThread, TcpBind, TcpListen, TcpAcceptFails, TcpStore, TcpRecv,
                TcpConnected, TcpSend, TcpHangup, TcpClose, TcpDie, TcpOpened, CancelPoints
  <2>2. Used' \subseteq Used /\ conns' = conns
    <3>1. CASE TcpBind(t)
      BY <3>1 DEF TcpBind, Is, Used
    <3>2. CASE TcpListen(t)
      BY <3>2 DEF TcpListen, Is, Used
    <3>3. CASE TcpClose(t)
      BY <3>3 DEF TcpClose, Closes, Used
    <3>4. CASE TcpStore(t)
      BY <3>4 DEF TcpStore, Used
    <3>5. CASE TcpAcceptFails(t) \/ TcpRecv(t) \/ TcpConnected(t) \/ TcpSend(t)
               \/ TcpHangup(t) \/ TcpDie(t)
      BY <3>5 DEF TcpAcceptFails, TcpRecv, TcpConnected, TcpSend, TcpHangup, TcpDie, Used
    <3> QED BY <1>4, <3>1, <3>2, <3>3, <3>4, <3>5 DEF TcpThread
  <2> HIDE DEF TypeOK
  <2> QED BY <1>1, <2>1, <2>2, RoomStays
<1> QED BY <1>2, <1>3, <1>4

LEMMA DogRoom == ASSUME TypeOK, Room, ToCome, TypeOK', DogThread PROVE Room'
<1> USE DEF TypeOK, dogOthers, numbers, DogGoto
<1>1. UdpOpened' = UdpOpened /\ SerialOpened' = SerialOpened /\ conns' = conns
  BY DEF DogThread, DogCheck, DogCancel, DogCloseAll, DogClose, DogCreate, UdpOpened,
         SerialOpened
<1>2. Used' \subseteq Used
  BY DEF DogThread, DogCheck, DogCancel, DogCloseAll, DogClose, DogCreate, Closes, Used
<1>3. TcpOpened' = TcpOpened
  <2>1. CASE DogCreate
    <3>1. thread0 + 1 \in Tcp /\ tcpPc[thread0 + 1] = "unborn"
      BY <2>1, DescriptorsAssumption DEF DogCreate, ToCome, Tcp
    <3> QED BY <2>1, <3>1 DEF DogCreate, TcpOpened
  <2>2. CASE ~DogCreate
    BY <2>2 DEF DogThread, DogCheck, DogCancel, DogCloseAll, DogClose, TcpOpened
  <2> QED BY <2>1, <2>2
<1> HIDE DEF TypeOK
<1> QED BY <1>1, <1>2, <1>3, RoomStays

LEMMA NextRoom == ASSUME TypeOK, Room, ToCome, TypeOK', [Next]_vars PROVE Room'
<1> USE DEF numbers, tcpVars, dogVars
<1>1. ASSUME NEW u \in Udp, UdpSocket(u) PROVE Room'
  <2>1. Cardinality(Used') = Cardinality(Used) + 1
    BY <1>1, OpensOne DEF UdpSocket, Kinds
  <2>2. UdpOpened' = UdpOpened \cup {u} /\ u \notin UdpOpened
    BY <1>1 DEF UdpSocket, UdpOpened, TypeOK
  <2>3. Cardinality(UdpOpened \cup {u}) = Cardinality(UdpOpened) + 1
    BY <2>2, Counts, FS_AddElement
  <2>4. SerialOpened' = SerialOpened /\ TcpOpened' = TcpOpened /\ conns' = conns
    BY <1>1 DEF UdpSocket, SerialOpened, TcpOpened
  <2> QED BY <2>1, <2>2, <2>3, <2>4, Counts DEF Room, TypeOK
<1>2. ASSUME Interrupt \/ UNCHANGED vars PROVE Room'
  <2>1. Used' \subseteq Used
    BY <1>2 DEF Interrupt, vars, Used, TypeOK
  <2>2. /\ UdpOpened' = UdpOpened /\ SerialOpened' = SerialOpened
        /\ TcpOpened' = TcpOpened /\ conns' = conns
    BY <1>2 DEF Interrupt, vars, UdpOpened, SerialOpened, TcpOpened
  <2> QED BY <2>1, <2>2, RoomStays
<1> QED BY <1>1, <1>2, SerialRoom, TcpRoom, DogRoom DEF Next

LEMMA NextToCome == ASSUME TypeOK, ToCome, [Next]_vars PROVE ToCome'
<1> USE DEF ToCome, TypeOK
<1>1. ASSUME NEW t \in Tcp, TcpThread(t) PROVE ToCome'
  BY <1>1 DEF TcpThread, TcpSocket, TcpBind, TcpListen, TcpAccept, TcpAcceptFails, TcpStore,
              TcpRecv, TcpConnected, TcpSend, TcpHangup, TcpClose, TcpDie, Goto, tcpOthers,
              dogVars, CancelPoints
<1>2. CASE DogCreate
  BY <1>2, DescriptorsAssumption DEF DogCreate, Tcp
<1>3. CASE DogCheck \/ DogCancel \/ DogCloseAll
  BY <1>3 DEF DogCheck, DogCancel, DogCloseAll, DogClose
<1>4. ASSUME ~(\E t \in Tcp : TcpThread(t)), ~DogThread PROVE UNCHANGED <<tcpPc, thread0>>
  BY <1>4 DEF Next, vars, tcpVars, dogVars, UdpSocket, SerialThread, SerialOpen, SerialClose,
              serialOthers, Interrupt
<1> QED BY <1>1, <1>2, <1>3, <1>4 DEF DogThread

-----------------------------------------------------------------------------
(* Orderly restarts. *)

\* What the invariant says of a state with orderly restarts, with the new descriptor.
Now == TypeOK /\ Good /\ Lowest \in Fds /\ fd[Lowest] = "free"

LEMMA UdpGood == ASSUME Now, NEW u \in Udp, UdpSocket(u) PROVE Good'
<1> USE DEF Now, Good, TypeOK, UdpSocket, Opens, numbers, tcpVars, dogVars, At
<1>1. Threads'
  BY DEF Threads
<1>2. Port'
  BY DEF Port
<1>3. UdpFew'
  <2>1. PICK w \in Udp : w # u /\ \A v \in Udp : v \in {u, w}
    BY DEF Udp
  <2>2. udpPc'[u] = "run" /\ udpPc[u] = "socket" /\ udpPc'[w] = udpPc[w]
    BY <2>1
  <2>3. PICK p \in Fds : \A n \in Fds : fd[n] = "udp" => n = p
    BY DEF UdpFew
  <2>4. \A n \in Fds : fd'[n] = "udp" => n \in {p, Lowest}
    BY <2>3
  <2>5. ASSUME udpPc[w] = "socket"
        PROVE  \A n \in Fds : fd'[n] = "udp" => n = Lowest
    <3>1. \A n \in Fds : fd[n] # "udp"
      BY <2>1, <2>2, <2>5 DEF UdpFew
    <3> QED BY <3>1
  <2>6. (\E v \in Udp : udpPc'[v] = "socket") => udpPc[w] = "socket"
    BY <2>1, <2>2
  <2>7. ~ \A v \in Udp : udpPc'[v] = "socket"
    BY <2>2
  <2> HIDE DEF Now, Good, TypeOK, UdpSocket, Opens
  <2>8. Lowest \in Fds
    BY DEF Now
  <2> QED BY <2>3, <2>4, <2>5, <2>6, <2>7, <2>8 DEF UdpFew
<1>4. Listener'
  BY DEF Listener, Listening
<1>5. Client'
  BY DEF Client, Is
<1> QED BY <1>1, <1>2, <1>3, <1>4, <1>5

\* The opening of the port is over before the first restart.
LEMMA SerialGood == ASSUME Now, SerialThread, ~early' PROVE Good'
<1> USE DEF Now, Good, TypeOK, serialOthers, tcpVars, At
<1>a. dogPc = "check" /\ thread0 = 1 /\ fd[0] = "console"
  BY DEF SerialThread, SerialOpen, SerialClose, Threads, Port, Tcp
<1>0. 0 \in Fds
  BY DescriptorsAssumption DEF Fds
<1>b. UNCHANGED <<dogPc, thread0, cancelled, tcpPc, tcpTmp, socket_tcp, clntSock, udpPc>>
  BY DEF SerialThread, SerialOpen, SerialClose
<1>c. \A n \in Fds : fd'[n] # fd[n] => n = hUSB1' /\ {fd[n], fd'[n]} = {"free", "serial"}
  <2>1. ASSUME NEW ok \in BOOLEAN,
               SerialOpen("open1", "close", ok) \/ SerialOpen("open2", "drive", ok),
               NEW n \in Fds, fd'[n] # fd[n]
        PROVE  n = hUSB1' /\ {fd[n], fd'[n]} = {"free", "serial"}
    BY <2>1 DEF SerialOpen, openrs232, Opens
  <2>2. ASSUME SerialClose, NEW n \in Fds, fd'[n] # fd[n]
        PROVE  n = hUSB1' /\ {fd[n], fd'[n]} = {"free", "serial"}
    BY <2>2 DEF SerialClose, Closes, Port
  <2> QED BY <2>1, <2>2 DEF SerialThread
<1>1. Threads'
  BY <1>a, <1>b DEF Threads
<1>2. Port'
  <2>1. ASSUME SerialOpen("open1", "close", TRUE) PROVE Port'
    BY <2>1, <1>a, <1>0 DEF SerialOpen, openrs232, Opens, Port
  <2>2. ASSUME SerialOpen("open1", "close", FALSE) PROVE Port'
    BY <2>2, <1>a DEF SerialOpen, openrs232, Port
  <2>3. ASSUME NEW ok \in BOOLEAN, SerialOpen("open2", "drive", ok) PROVE Port'
    BY <2>3, <1>a DEF SerialOpen, openrs232, Opens, Port
  <2>4. CASE SerialClose
    <3>1. serialPc = "close" /\ serialPc' = "open2" /\ hUSB1' = hUSB1 /\ hUSB1 # 0
      BY <2>4 DEF SerialClose
    <3>2. \A n \in Fds : fd'[n] = IF n = hUSB1 THEN "free" ELSE fd[n]
      BY <2>4 DEF SerialClose, Closes
    <3>3. fd'[0] = "console"
      BY <1>a, <1>0, <3>1, <3>2
    <3>4. \A n \in Fds : fd'[n] # "serial"
      BY <3>1, <3>2 DEF Port
    <3> QED BY <3>1, <3>3, <3>4 DEF Port
  <2> QED BY <2>1, <2>2, <2>3, <2>4 DEF SerialThread
<1>3. UdpFew'
  <2>1. \A n \in Fds : fd'[n] = "udp" => fd[n] = "udp"
    BY <1>c
  <2> QED BY <1>b, <2>1 DEF UdpFew
<1>4. Listener'
  BY <1>a, <1>b, <1>c DEF Listener, Listening
<1>5. Client'
  BY <1>a, <1>b, <1>c DEF Client, Is
<1> QED BY <1>1, <1>2, <1>3, <1>4, <1>5

\* A thread that was cancelled finishes the command it was at and dies.
LEMMA CancelledGood == ASSUME Now, NEW t \in cancelled, TcpThread(t) PROVE Good'
<1> USE DEF Now, Good, TypeOK, tcpOthers, dogVars, numbers, Goto, Serving
<1>1. t \in Tcp /\ tcpPc[t] \in {"recv", "connected", "send", "dead"}
  BY DEF Threads
<1>2. TcpConnected(t) \/ TcpDie(t)
  BY <1>1 DEF TcpThread, TcpSocket, TcpBind, TcpListen, TcpAccept, TcpAcceptFails, TcpStore,
              TcpRecv, TcpSend, TcpHangup, TcpClose
<1>3. /\ UNCHANGED <<fd, numbers, tcpTmp, udpPc, serialPc, dogPc, thread0, cancelled>>
      /\ \A s \in Tcp \ {t} : tcpPc'[s] = tcpPc[s]
      /\ tcpPc'[t] \in {"send", "dead"}
  BY <1>1, <1>2 DEF TcpConnected, TcpDie
<1>4. thread0 \notin cancelled => tcpPc'[thread0] = tcpPc[thread0]
  BY <1>3
<1>5. Threads'
  BY <1>1, <1>3, <1>4 DEF Threads
<1>6. Port' /\ UdpFew'
  BY <1>3 DEF Port, UdpFew
<1>7. Listener'
  BY <1>3, <1>4 DEF Listener, At, HasClient
<1>8. Client'
  BY <1>3, <1>4 DEF Client, At, HasClient, Is
<1> QED BY <1>5, <1>6, <1>7, <1>8

\* The current thread, if it was not cancelled, is the only other one that takes steps.
LEMMA OnlyCurrent ==
    ASSUME Now, ToCome, NEW t \in Tcp \ cancelled, TcpThread(t)
    PROVE  t = thread0 /\ dogPc \in {"check", "cancel"} /\ dogPc' = dogPc
           /\ thread0' = thread0 /\ cancelled' = cancelled
           /\ serialPc' = serialPc /\ hUSB1' = hUSB1 /\ udpPc' = udpPc
<1> USE DEF Now, Good, TypeOK
<1>1. tcpPc[t] # "unborn"
  BY DEF TcpThread, TcpSocket, TcpBind, TcpListen, TcpAccept, TcpAcceptFails, TcpStore, TcpRecv,
         TcpConnected, TcpSend, TcpHangup, TcpClose, TcpDie, Goto, CancelPoints
<1>2. t = thread0
  BY <1>1 DEF ToCome, Threads, Tcp
<1>3. dogPc \in {"check", "cancel"}
  BY <1>2 DEF Threads
<1>4. UNCHANGED <<dogPc, thread0, cancelled, serialPc, hUSB1, udpPc>>
  BY DEF TcpThread, TcpSocket, TcpBind, TcpListen, TcpAccept, TcpAcceptFails, TcpStore, TcpRecv,
         TcpConnected, TcpSend, TcpHangup, TcpClose, TcpDie, tcpOthers, dogVars, numbers
<1> QED BY <1>2, <1>3, <1>4

\* Its steps do not touch the port or the UDP sockets.
LEMMA CurrentGood ==
    ASSUME Now, ToCome, NEW t \in Tcp \ cancelled, TcpThread(t)
    PROVE  Good'
<1> USE DEF Now, Good, TypeOK, Goto
<1>a. /\ t = thread0 /\ dogPc \in {"check", "cancel"} /\ dogPc' = dogPc
      /\ thread0' = thread0 /\ cancelled' = cancelled
      /\ serialPc' = serialPc /\ hUSB1' = hUSB1 /\ udpPc' = udpPc
  BY OnlyCurrent
<1>b. tcpPc' \in [Tcp -> CancelPoints \cup {"unborn", "socket", "bind", "listen", "store",
                                            "connected", "hangup", "dead"}]
      /\ tcpPc'[t] \notin {"unborn", "dead"} /\ \A s \in Tcp \ {t} : tcpPc'[s] = tcpPc[s]
  BY DEF TcpThread, TcpSocket, TcpBind, TcpListen, TcpAccept, TcpAcceptFails, TcpStore, TcpRecv,
         TcpConnected, TcpSend, TcpHangup, TcpClose, TcpDie, CancelPoints
<1>0. 0 \in Fds /\ -1 \notin Fds
  BY DescriptorsAssumption DEF Fds
<1>1. Threads'
  BY <1>a, <1>b DEF Threads
<1> DEFINE SocketKinds == {"free", "socket", "bound", "listen", "conn"}
<1>c. \A n \in Fds : fd'[n] # fd[n] => fd[n] \in SocketKinds /\ fd'[n] \in SocketKinds
  <2>1. CASE TcpSocket(t)
    BY <2>1 DEF TcpSocket, Opens
  <2>2. CASE TcpBind(t)
    BY <2>2 DEF TcpBind, Is
  <2>3. CASE TcpListen(t)
    BY <2>3 DEF TcpListen, Is
  <2>4. CASE TcpAccept(t)
    BY <2>4 DEF TcpAccept, Opens
  <2>5. CASE TcpClose(t)
    <3>1. clntSock = -1 \/ Is(clntSock, "conn")
      BY <2>5, <1>a DEF TcpClose, Client, At, HasClient
    <3>2. \A n \in Fds : fd'[n] = IF n = clntSock THEN "free" ELSE fd[n]
      BY <2>5 DEF TcpClose, Closes
    <3> QED BY <1>0, <3>1, <3>2 DEF Is
  <2>6. CASE TcpAcceptFails(t) \/ TcpStore(t) \/ TcpRecv(t) \/ TcpConnected(t) \/ TcpSend(t)
             \/ TcpHangup(t) \/ TcpDie(t)
    BY <2>6 DEF TcpAcceptFails, TcpStore, TcpRecv, TcpConnected, TcpSend, TcpHangup, TcpDie
  <2> QED BY <2>1, <2>2, <2>3, <2>4, <2>5, <2>6 DEF TcpThread
<1>2. Port'
  <2>1. \A n \in Fds : /\ fd'[n] = "serial" <=> fd[n] = "serial"
                       /\ fd[n] = "console" => fd'[n] = "console"
    BY <1>c
  <2> QED BY <1>a, <1>0, <2>1 DEF Port
<1>3. UdpFew'
  <2>1. \A n \in Fds : fd'[n] = "udp" => fd[n] = "udp"
    BY <1>c
  <2> QED BY <1>a, <2>1 DEF UdpFew
<1>4. Listener' /\ Client'
  <2> USE DEF Listener, Client, At, HasClient, Serving, Listening, Is, tcpOthers, numbers
  <2>1. CASE TcpSocket(t)
    BY <1>a, <2>1 DEF TcpSocket, Opens
  <2>2. CASE TcpBind(t)
    BY <1>a, <2>2 DEF TcpBind, PortTaken
  <2>3. CASE TcpListen(t)
    BY <1>a, <2>3 DEF TcpListen, PortTaken
  <2>4. CASE TcpAccept(t)
    BY <1>a, <2>4 DEF TcpAccept, Opens
  <2>5. CASE TcpAcceptFails(t)
    BY <1>a, <2>5 DEF TcpAcceptFails
  <2>6. CASE TcpStore(t)
    BY <1>a, <2>6 DEF TcpStore
  <2>7. CASE TcpRecv(t)
    BY <1>a, <2>7 DEF TcpRecv
  <2>8. CASE TcpConnected(t)
    BY <1>a, <2>8 DEF TcpConnected
  <2>9. CASE TcpSend(t)
    BY <1>a, <2>9 DEF TcpSend
  <2>10. CASE TcpHangup(t)
    BY <1>a, <2>10 DEF TcpHangup
  <2>11. CASE TcpClose(t)
    <3>1. clntSock = -1 \/ (clntSock \in Fds /\ fd[clntSock] = "conn")
      BY <1>a, <2>11 DEF TcpClose
    <3>2. \A n \in Fds : fd'[n] = IF n = clntSock THEN "free" ELSE fd[n]
      BY <2>11 DEF TcpClose, Closes
    <3>3. fd'[socket_tcp] = "listen"
      BY <1>a, <1>0, <2>11, <3>1, <3>2 DEF TcpClose
    <3>4. \A n \in Fds : fd'[n] # "conn"
      BY <1>a, <2>11, <3>2 DEF TcpClose
    <3>5. tcpPc'[thread0] = "listen" /\ socket_tcp' = socket_tcp
      BY <1>a, <2>11 DEF TcpClose
    <3> QED BY <1>a, <3>2, <3>3, <3>4, <3>5
  <2>12. CASE TcpDie(t)
    BY <2>12 DEF TcpDie
  <2> QED
    BY <2>1, <2>2, <2>3, <2>4, <2>5, <2>6, <2>7, <2>8, <2>9, <2>10, <2>11, <2>12
    DEF TcpThread
<1> QED BY <1>1, <1>2, <1>3, <1>4

\* The watchdog closes what the thread it cancelled had open, and starts the next.
LEMMA DogGood == ASSUME Now, ToCome, DogThread, ~early', ~late' PROVE Good'
<1> USE DEF Now, Good, TypeOK, DogGoto, dogOthers, numbers
<1>0. 0 \in Fds /\ -1 \notin Fds
  BY DescriptorsAssumption DEF Fds
<1>1. CASE DogCheck
  <2>1. serialPc \notin {"open1", "close", "open2"}
    BY <1>1 DEF DogCheck
  <2>2. /\ dogPc = "check" /\ dogPc' = "cancel"
        /\ UNCHANGED <<fd, hUSB1, socket_tcp, clntSock, udpPc, serialPc, tcpPc, tcpTmp,
                       thread0, cancelled>>
    BY <1>1 DEF DogCheck
  <2>3. Threads'
    BY <2>1, <2>2 DEF Threads
  <2>4. Port' /\ UdpFew'
    BY <2>2 DEF Port, UdpFew
  <2>5. Listener'
    BY <2>2 DEF Listener, At, HasClient
  <2>6. Client'
    BY <2>2 DEF Client, At, HasClient, Is
  <2> QED BY <2>3, <2>4, <2>5, <2>6
<1>2. CASE DogCancel
  <2>1. tcpPc[thread0] \in Serving
    BY <1>2 DEF DogCancel
  <2>2. /\ dogPc = "cancel" /\ dogPc' = "clntSock" /\ cancelled' = cancelled \cup {thread0}
        /\ UNCHANGED <<fd, hUSB1, socket_tcp, clntSock, udpPc, serialPc, tcpPc, tcpTmp,
                       thread0>>
    BY <1>2 DEF DogCancel
  <2>3. At(HasClient)
    <3>1. thread0 \notin cancelled
      BY <2>2, DescriptorsAssumption DEF Threads, Tcp
    <3> QED BY <2>1, <3>1 DEF At, HasClient
  <2>4. Threads'
    BY <2>1, <2>2 DEF Threads, Tcp
  <2>5. Port' /\ UdpFew'
    BY <2>2 DEF Port, UdpFew
  <2>6. Listener'
    BY <2>2, <2>3 DEF Listener, At, HasClient
  <2>7. Client'
    BY <2>2, <2>3 DEF Client, At, HasClient, Serving, Is
  <2> QED BY <2>4, <2>5, <2>6, <2>7
<1>3. CASE DogCloseAll
  <2>1. PICK n \in {clntSock, 0, socket_tcp} :
           /\ Closes(n)
           /\ \/ dogPc = "clntSock" /\ dogPc' = "servSock" /\ n = clntSock
              \/ dogPc = "servSock" /\ dogPc' = "socket_tcp" /\ n = 0
              \/ dogPc = "socket_tcp" /\ dogPc' = "create" /\ n = socket_tcp
    BY <1>3 DEF DogCloseAll, DogClose
  <2>2. UNCHANGED <<hUSB1, socket_tcp, clntSock, udpPc, serialPc, tcpPc, tcpTmp, thread0,
                    cancelled>>
    BY <1>3 DEF DogCloseAll, DogClose
  <2>3. \A m \in Fds : fd'[m] = IF m = n THEN "free" ELSE fd[m]
    BY <2>1 DEF Closes
  <2>4. thread0 \in cancelled /\ serialPc \in {"drive", "spin"}
    BY <2>1 DEF Threads
  <2>5. n \notin Fds \/ n = 0 \/ fd[n] \in {"conn", "listen", "free", "udp"}
    <3>1. CASE dogPc = "clntSock"
      BY <1>0, <2>1, <3>1 DEF Client, Is
    <3>2. CASE dogPc = "servSock"
      BY <2>1, <3>2
    <3>3. CASE dogPc = "socket_tcp"
      BY <2>1, <3>3 DEF Listener
    <3> QED BY <2>1, <3>1, <3>2, <3>3
  <2>6. Threads'
    BY <2>1, <2>2 DEF Threads
  <2>7. Port'
    BY <2>2, <2>3, <2>4, <2>5 DEF Port
  <2>8. UdpFew'
    <3>1. \A m \in Fds : fd'[m] = "udp" => fd[m] = "udp"
      BY <2>3
    <3> QED BY <2>2, <3>1 DEF UdpFew
  <2>9. Listener'
    <3>1. CASE dogPc = "clntSock"
      BY <1>0, <2>1, <2>2, <2>3, <2>4, <3>1 DEF Listener, Listening, At, Client, Is
    <3>2. CASE dogPc = "servSock"
      BY <2>1, <2>2, <2>3, <2>4, <3>2 DEF Listener, Listening, At
    <3>3. CASE dogPc = "socket_tcp"
      BY <2>1, <2>2, <2>3, <2>4, <3>3 DEF Listener, Listening, At
    <3> QED BY <2>1, <3>1, <3>2, <3>3
  <2>10. Client'
    BY <2>1, <2>2, <2>3, <2>4 DEF Client, At
  <2> QED BY <2>6, <2>7, <2>8, <2>9, <2>10
<1>4. CASE DogCreate
  <2>1. /\ dogPc = "create" /\ dogPc' = "check" /\ thread0' = thread0 + 1
        /\ thread0 + 1 \in Tcp
        /\ UNCHANGED <<fd, hUSB1, socket_tcp, clntSock, udpPc, serialPc, tcpTmp, cancelled>>
    BY <1>4, DescriptorsAssumption DEF DogCreate, Tcp
  <2>2. tcpPc' = [tcpPc EXCEPT ![thread0 + 1] = "socket"]
    BY <1>4 DEF DogCreate
  <2>3. thread0 + 1 \notin cancelled
    BY <2>1 DEF Threads, Tcp
  <2>4. Threads'
    BY <2>1, <2>2, <2>3, DescriptorsAssumption DEF Threads, Tcp
  <2>5. Port' /\ UdpFew'
    BY <2>1 DEF Port, UdpFew
  <2>6. tcpPc'[thread0'] = "socket"
    BY <2>1, <2>2
  <2>7. \A m \in Fds : fd[m] # "conn" /\ fd[m] \notin Listening
    BY <2>1 DEF Client, Listener, At, Threads
  <2>8. Listener'
    BY <2>1, <2>6, <2>7 DEF Listener, At, HasClient, Serving
  <2>9. Client'
    BY <2>1, <2>6, <2>7 DEF Client, At, HasClient, Serving
  <2> QED BY <2>4, <2>5, <2>8, <2>9
<1> QED BY <1>1, <1>2, <1>3, <1>4 DEF DogThread

\* A step after which the restarts were orderly follows a state in which they were.
LEMMA OrderlyBefore == ASSUME TypeOK, [Next]_vars, Orderly' PROVE Orderly /\ ~Interrupt
<1>1. ASSUME NEW t \in Tcp, TcpThread(t) PROVE UNCHANGED <<early, late, interrupted>>
  BY <1>1 DEF TcpThread, TcpSocket, TcpBind, TcpListen, TcpAccept, TcpAcceptFails, TcpStore,
              TcpRecv, TcpConnected, TcpSend, TcpHangup, TcpClose, TcpDie, tcpOthers, dogVars
<1>2. ASSUME SerialThread PROVE (early => early') /\ late' = late /\ interrupted' = interrupted
  <2>1. late' = late /\ interrupted' = interrupted
    BY <1>2 DEF SerialThread, SerialOpen, SerialClose, serialOthers
  <2>2. early => early'
    BY <1>2 DEF SerialThread, SerialOpen, SerialClose
  <2> QED BY <2>1, <2>2
<1>3. ASSUME DogThread PROVE (early => early') /\ (late => late') /\ interrupted' = interrupted
  <2>1. interrupted' = interrupted
    BY <1>3 DEF DogThread, DogCheck, DogCancel, DogCloseAll, DogClose, DogCreate, dogOthers
  <2>2. early => early'
    BY <1>3 DEF DogThread, DogCheck, DogCancel, DogCloseAll, DogClose, DogCreate
  <2>3. late => late'
    BY <1>3 DEF DogThread, DogCheck, DogCancel, DogCloseAll, DogClose, DogCreate
  <2> QED BY <2>1, <2>2, <2>3
<1>4. ASSUME NEW u \in Udp, UdpSocket(u) PROVE UNCHANGED <<early, late, interrupted>>
  BY <1>4 DEF UdpSocket, dogVars
<1>5. ~Interrupt
  BY DEF Interrupt, Orderly
<1>6. CASE UNCHANGED vars
  BY <1>5, <1>6 DEF vars, dogVars, Orderly
<1> QED BY <1>1, <1>2, <1>3, <1>4, <1>5, <1>6 DEF Next, Orderly

LEMMA NextGood == ASSUME IInv, [Next]_vars, Orderly' PROVE Good'
<1>1. Now /\ ToCome /\ Orderly /\ ~Interrupt
  BY OrderlyBefore, LowestIsFree DEF IInv, Now
<1>2. ~early' /\ ~late'
  BY DEF Orderly
<1>3. ASSUME NEW t \in Tcp, TcpThread(t) PROVE Good'
  BY <1>1, <1>3, CancelledGood, CurrentGood
<1>4. CASE UNCHANGED vars
  <2>1. Good
    BY <1>1 DEF Now
  <2> QED
    BY <1>4, <2>1 DEF vars, numbers, tcpVars, dogVars, Good, Threads, Port, UdpFew, Listener,
                      Client, At, Is, HasClient
<1> QED BY <1>1, <1>2, <1>3, <1>4, UdpGood, SerialGood, DogGood DEF Next

-----------------------------------------------------------------------------
LEMMA InitIInv == ASSUME Init PROVE IInv
<1> USE DescriptorsAssumption
<1>1. TypeOK
  <2>1. 0 \in Fds /\ 1 \in Tcp
    BY DEF Fds, Tcp
  <2>2. fd \in [Fds -> Kinds]
    BY DEF Init, Kinds
  <2>3. tcpPc \in [Tcp -> {"socket", "unborn"}] /\ tcpTmp \in [Tcp -> Fds]
    BY <2>1 DEF Init
  <2>4. udpPc \in [Udp -> {"socket", "run"}] /\ conns \in 0 .. MaxConns /\ cancelled \subseteq Tcp
    BY DEF Init
  <2> QED BY <2>1, <2>2, <2>3, <2>4 DEF Init, TypeOK
<1>2. Room
  <2>0. PICK k \in Int : 1 < k /\ k < 3
    OBVIOUS
  <2>1. Used = 0 .. k
    BY <2>0 DEF Init, Used, Fds, Console
  <2>2. Cardinality(0 .. k) = 3
    BY <2>0, FS_Interval
  <2>3. UdpOpened = {} /\ TcpOpened = {} /\ SerialOpened = 0 /\ conns = 0
    BY DEF Init, UdpOpened, TcpOpened, SerialOpened
  <2> QED BY <2>1, <2>2, <2>3, FS_EmptySet DEF Room
<1>3. ToCome
  BY DEF Init, ToCome, Tcp
<1>4. Good
  <2>0. 0 \in Fds /\ 1 \in Tcp /\ \A n \in Fds : fd[n] = "free" \/ fd[n] = "console"
    BY DEF Init, Fds, Tcp
  <2>1. Threads
    BY <2>0 DEF Init, Threads, Tcp
  <2>2. Port
    <3>1. fd[0] = "console"
      BY <2>0 DEF Init, Console
    <3> QED BY <2>0, <3>1 DEF Init, Port
  <2>3. UdpFew
    BY <2>0 DEF UdpFew
  <2>4. tcpPc[thread0] = "socket" /\ dogPc = "check"
    BY <2>0 DEF Init
  <2>5. Listener
    BY <2>0, <2>4 DEF Listener, Listening, At, HasClient, Serving
  <2>6. Client
    BY <2>0, <2>4 DEF Client, At, HasClient, Serving
  <2> QED BY <2>1, <2>2, <2>3, <2>5, <2>6 DEF Good
<1> QED BY <1>1, <1>2, <1>3, <1>4 DEF IInv

\* The inductive invariant.
THEOREM Invariance == Spec => []IInv
<1>1. Init => IInv
  BY InitIInv
<1>2. IInv /\ [Next]_vars => IInv'
  BY NextTypes, NextRoom, NextToCome, NextGood DEF IInv
<1> QED BY <1>1, <1>2, PTL DEF Spec

\* Every number the threads keep is a descriptor, or -1 where the code allows it, however
\* the restarts went: the kernel never runs out of descriptors for these threads.
THEOREM TypeCorrect == Spec => []TypeOK
<1>1. IInv => TypeOK
  BY DEF IInv
<1> QED BY <1>1, Invariance, PTL

\* However often the watchdog restarts Thread_TCP, the motors' commands go to the serial
\* port.
THEOREM PortStays == Spec => []PortKept
<1>1. IInv => PortKept
  BY DEF IInv, Good, Port, PortKept
<1> QED BY <1>1, Invariance, PTL

\* A Thread_TCP that waits for clients waits on the server's port.
THEOREM ListenerStaysUp == Spec => []ListenerUp
<1>1. IInv => ListenerUp
  BY DEF IInv, Good, Listener, At, ListenerUp
<1> QED BY <1>1, Invariance, PTL

LEMMA OneMore ==
    ASSUME NEW S, NEW x, IsFiniteSet(S)
    PROVE  /\ IsFiniteSet(S \cup {x})
           /\ Cardinality(S) \in Nat /\ Cardinality(S \cup {x}) \in Nat
           /\ Cardinality(S \cup {x}) <= Cardinality(S) + 1
<1>1. /\ IsFiniteSet(S \cup {x})
      /\ Cardinality(S \cup {x}) = IF x \in S THEN Cardinality(S) ELSE Cardinality(S) + 1
  BY FS_AddElement
<1>2. Cardinality(S) \in Nat /\ Cardinality(S \cup {x}) \in Nat
  BY <1>1, FS_CardinalityType
<1> QED BY <1>1, <1>2

\* Five numbers make a set of at most five.
LEMMA FiveAtMost ==
    ASSUME NEW a, NEW b, NEW c, NEW d, NEW e, NEW S, S \subseteq {a, b, c, d, e}
    PROVE  Cardinality(S) <= 5
<1> DEFINE A == {a}  B == A \cup {b}  C == B \cup {c}  D == C \cup {d}  E == D \cup {e}
<1>1. IsFiniteSet(A) /\ Cardinality(A) = 1
  <2>1. IsFiniteSet({a}) /\ Cardinality({a}) = 1
    BY FS_Singleton
  <2> QED BY <2>1
<1>2. IsFiniteSet(B) /\ Cardinality(B) <= 2
  <2> HIDE DEF A
  <2>1. /\ IsFiniteSet(A \cup {b})
        /\ Cardinality(A) \in Nat /\ Cardinality(A \cup {b}) \in Nat
        /\ Cardinality(A \cup {b}) <= Cardinality(A) + 1
    BY <1>1, OneMore
  <2> HIDE DEF B
  <2>2. Cardinality(B) \in Nat /\ Cardinality(B) <= Cardinality(A) + 1 /\ IsFiniteSet(B)
    BY <2>1 DEF B
  <2> QED BY <1>1, <2>1, <2>2
<1>3. IsFiniteSet(C) /\ Cardinality(C) <= 3
  <2> HIDE DEF B
  <2>1. /\ IsFiniteSet(B \cup {c})
        /\ Cardinality(B) \in Nat /\ Cardinality(B \cup {c}) \in Nat
        /\ Cardinality(B \cup {c}) <= Cardinality(B) + 1
    BY <1>2, OneMore
  <2> HIDE DEF C
  <2>2. Cardinality(C) \in Nat /\ Cardinality(C) <= Cardinality(B) + 1 /\ IsFiniteSet(C)
    BY <2>1 DEF C
  <2> QED BY <1>2, <2>1, <2>2
<1>4. IsFiniteSet(D) /\ Cardinality(D) <= 4
  <2> HIDE DEF C
  <2>1. /\ IsFiniteSet(C \cup {d})
        /\ Cardinality(C) \in Nat /\ Cardinality(C \cup {d}) \in Nat
        /\ Cardinality(C \cup {d}) <= Cardinality(C) + 1
    BY <1>3, OneMore
  <2> HIDE DEF D
  <2>2. Cardinality(D) \in Nat /\ Cardinality(D) <= Cardinality(C) + 1 /\ IsFiniteSet(D)
    BY <2>1 DEF D
  <2> QED BY <1>3, <2>1, <2>2
<1>5. IsFiniteSet(E) /\ Cardinality(E) <= 5
  <2> HIDE DEF D
  <2>1. /\ IsFiniteSet(D \cup {e})
        /\ Cardinality(D) \in Nat /\ Cardinality(D \cup {e}) \in Nat
        /\ Cardinality(D \cup {e}) <= Cardinality(D) + 1
    BY <1>4, OneMore
  <2> HIDE DEF E
  <2>2. Cardinality(E) \in Nat /\ Cardinality(E) <= Cardinality(D) + 1 /\ IsFiniteSet(E)
    BY <2>1 DEF E
  <2> QED BY <1>4, <2>1, <2>2
<1>6. S \in SUBSET E
  OBVIOUS
<1> HIDE DEF E
<1>7. IsFiniteSet(S) /\ Cardinality(S) <= Cardinality(E)
  BY <1>5, <1>6, FS_Subset
<1>8. Cardinality(S) \in Nat /\ Cardinality(E) \in Nat
  BY <1>5, <1>7, FS_CardinalityType
<1> QED BY <1>5, <1>7, <1>8

\* Orderly restarts leave nothing open, however many there are.
THEOREM NothingLeaks == Spec => []NoLeak
<1>1. ASSUME IInv, Orderly
      PROVE  Cardinality({n \in Fds : fd[n] \notin {"free", "console"}}) <= 5
  <2>1. TypeOK /\ Threads /\ Port /\ UdpFew /\ Listener /\ Client
    BY <1>1 DEF IInv, Good
  <2>2. PICK p, q \in Fds : \A n \in Fds : fd[n] = "udp" => n \in {p, q}
    BY <2>1 DEF UdpFew
  <2>3. PICK c : \A n \in Fds : fd[n] = "conn" => n = c
    <3>1. CASE At({"store"})
      <4>1. ~At(HasClient) /\ dogPc # "clntSock"
        BY <2>1, <3>1 DEF At, HasClient, Serving, Threads, TypeOK
      <4> QED BY <2>1, <4>1 DEF Client
    <3>2. CASE ~At({"store"})
      BY <2>1, <3>2 DEF Client
    <3> QED BY <3>1, <3>2
  <2>4. {n \in Fds : fd[n] \notin {"free", "console"}} \subseteq {hUSB1, p, q, socket_tcp, c}
    BY <2>1, <2>2, <2>3 DEF TypeOK, Kinds, Port, Listener, Listening
  <2> QED BY <2>4, FiveAtMost
<1>2. IInv => NoLeak
  BY <1>1 DEF NoLeak
<1> QED BY <1>2, Invariance, PTL
=============================================================================
