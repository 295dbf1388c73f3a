------------------------- MODULE RobotServerProofs -------------------------
(***************************************************************************)
(* Proofs about RobotServer, for every value of its constants: its type    *)
(* invariant, that the watchdog count stays within its limit, that silence *)
(* stops the robot, that the watchdog implements DeadMan, and that no two  *)
(* threads answer the operator at the same time.                           *)
(***************************************************************************)
EXTENDS RobotServer, TLAPS

(***************************************************************************)
(* The inductive invariant follows one iteration of Thread_Dog.  It says   *)
(* what the iteration has already done, provided that no operator store    *)
(* happened meanwhile (a store makes quiet 0 and voids the rest).          *)
(***************************************************************************)

\* The count that the watchdog compares or is about to store is within bounds.
CountInv ==
    /\ watchdog <= cycles
    /\ dogPc = "load" => watchdog < cycles
    /\ dogPc = "store" => dogTmp < cycles

\* Every period in silence was counted, until the count reached cycles.
SilenceInv ==
    quiet > 0 =>
        /\ dogPc \in {"top", "load"} => watchdog >= quiet - 1 \/ watchdog = cycles
        /\ dogPc = "store" => dogTmp >= quiet - 1
        /\ dogPc \notin {"top", "load", "store"} => watchdog = cycles

\* What the expired watchdog has zeroed stays zero in silence.
ZeroInv ==
    /\ speed2 = 0
    /\ quiet > 0 =>
        /\ dogPc \in {"zero2", "left"} => speed1 = 0
        /\ dogPc = "right" => rawIn[Left] = 0
        /\ dogPc \in {"check", "cancel", "create"} => ~Moving(rawIn)
    /\ quiet >= cycles + 2 => ~Moving(rawIn)

IInv == TypeOK /\ CountInv /\ SilenceInv /\ ZeroInv
-----------------------------------------------------------------------------
(* Typing, one lemma per thread *)

\* What the assumptions on the constants say of the sets built from them.
LEMMA ConstTypes ==
    /\ Limit \in Nat /\ Limit > 0 /\ QuietBound = Limit + 2
    /\ MaxSends \in Nat /\ MaxConns \in Nat /\ MaxKeys \in Nat
    /\ MaxTcp \in Nat /\ MaxTcp > 0 /\ Tcp = 1 .. MaxTcp /\ NoThread = 0
    /\ Field = {0, 1, 2} /\ Left = 0 /\ Right = 1 /\ Speed = {0, 1}
    /\ FrameLen = 3 /\ Byte = 0 .. 255
    /\ Silent \in [Field -> Byte]
    /\ Stopped \in [Speed -> Byte]
BY ConstantsAssumption DEF Tcp, NoThread, Field, Speed, FrameLen, Silent,
                           Stopped, Byte, Left, Right, QuietBound

\* The steps of Thread_TCP_Trooper_In.
LEMMA UdpTypes == ASSUME TypeOK, UdpThread PROVE TypeOK'
<1> USE DEF udpOthers, cmdVars, udpVars, tcpVars, lifeVars, netVars, dogVars, keyVars, drvVars
<1>a. TypeCmd /\ TypeKey /\ TypeUdp /\ TypeTcp /\ TypeNet /\ TypeDog /\ TypeDrv
  BY DEF TypeOK
<1>1. ASSUME NEW frame \in Frames, NEW len \in DatagramLens, UdpRecv(frame, len)
      PROVE  TypeOK'
  <2>1. TypeUdp'
    BY <1>a, ConstTypes, <1>1, ConstantsAssumption
    DEF TypeUdp, UdpRecv, UdpPcs
  <2>2. TypeCmd' /\ TypeKey' /\ TypeTcp' /\ TypeNet' /\ TypeDog' /\ TypeDrv'
    BY <1>a, <1>1 DEF UdpRecv, TypeCmd, TypeKey, TypeTcp, TypeNet, TypeDog, TypeDrv
  <2> QED BY <2>1, <2>2 DEF TypeOK
<1>2. CASE UdpReset
  <2>1. TypeCmd'
    BY <1>a, ConstTypes, <1>2
    DEF TypeCmd, UdpReset
  <2>2. TypeUdp'
    BY <1>a, ConstTypes, <1>2
    DEF TypeUdp, UdpReset, UdpPcs
  <2>3. TypeKey' /\ TypeTcp' /\ TypeNet' /\ TypeDog' /\ TypeDrv'
    BY <1>a, <1>2 DEF UdpReset, TypeKey, TypeTcp, TypeNet, TypeDog, TypeDrv
  <2> QED BY <2>1, <2>2, <2>3 DEF TypeOK
<1>3. ASSUME NEW f \in Field, UdpCopy(f)
      PROVE  TypeOK'
  <2>1. TypeCmd'
    <3>1. rawIn' \in [Field -> Byte]
      BY <1>a, <1>3 DEF TypeCmd, TypeUdp, UdpCopy
    <3> QED
      BY <1>a, ConstTypes, <1>3, <3>1 DEF TypeCmd, UdpCopy
  <2>2. TypeUdp'
    BY <1>a, ConstTypes, <1>3
    DEF TypeUdp, UdpCopy, UdpPcs
  <2>3. TypeKey' /\ TypeTcp' /\ TypeNet' /\ TypeDog' /\ TypeDrv'
    BY <1>a, <1>3 DEF UdpCopy, TypeKey, TypeTcp, TypeNet, TypeDog, TypeDrv
  <2> QED BY <2>1, <2>2, <2>3 DEF TypeOK
<1>4. CASE UdpArm
  <2>1. TypeCmd'
    BY <1>a, ConstTypes, <1>4
    DEF TypeCmd, UdpArm
  <2>2. TypeUdp'
    BY <1>a, ConstTypes, <1>4
    DEF TypeUdp, UdpArm, UdpPcs
  <2>3. TypeKey' /\ TypeTcp' /\ TypeNet' /\ TypeDog' /\ TypeDrv'
    BY <1>a, <1>4 DEF UdpArm, TypeKey, TypeTcp, TypeNet, TypeDog, TypeDrv
  <2> QED BY <2>1, <2>2, <2>3 DEF TypeOK
<1> QED
  BY <1>1, <1>2, <1>3, <1>4
  DEF UdpThread

\* The steps of Thread_TCP.
LEMMA TcpTypes == ASSUME TypeOK, NEW t \in Tcp, TcpThread(t) PROVE TypeOK'
<1> USE DEF tcpOthers, cmdVars, udpVars, tcpVars, lifeVars, netVars, dogVars, keyVars, drvVars
<1>a. TypeCmd /\ TypeKey /\ TypeUdp /\ TypeTcp /\ TypeNet /\ TypeDog /\ TypeDrv
  BY DEF TypeOK
<1>1. CASE TcpAccept(t)
  <2>1. TypeTcp'
    BY <1>a, ConstTypes, <1>1
    DEF TypeTcp, TcpAccept, Goto, TcpPcs, CancelPoints
  <2>2. TypeNet'
    BY <1>a, ConstTypes, <1>1
    DEF TypeNet, TcpAccept, Goto
  <2>3. TypeCmd' /\ TypeKey' /\ TypeUdp' /\ TypeDog' /\ TypeDrv'
    BY <1>a, <1>1 DEF TcpAccept, Goto, TypeCmd, TypeKey, TypeUdp, TypeDog, TypeDrv
  <2> QED BY <2>1, <2>2, <2>3 DEF TypeOK
<1>2. CASE TcpAcceptFails(t)
  <2>1. TypeTcp'
    BY <1>a, ConstTypes, <1>2
    DEF TypeTcp, TcpAcceptFails, Goto, TcpPcs, CancelPoints
  <2>2. TypeNet'
    BY <1>a, ConstTypes, <1>2
    DEF TypeNet, TcpAcceptFails, Goto
  <2>3. TypeCmd' /\ TypeKey' /\ TypeUdp' /\ TypeDog' /\ TypeDrv'
    BY <1>a, <1>2 DEF TcpAcceptFails, Goto, TypeCmd, TypeKey, TypeUdp, TypeDog, TypeDrv
  <2> QED BY <2>1, <2>2, <2>3 DEF TypeOK
<1>3. ASSUME NEW n \in 1 .. FrameLen, TcpRecv(t, n)
      PROVE  TypeOK'
  <2>1. TypeTcp'
    <3>1. n \in 1 .. 3 /\ n <= Len(inbox) /\ inbox \in Seq(Byte)
      BY <1>a, ConstTypes, <1>3 DEF TcpRecv, TypeNet
    <3>2. [f \in Field |-> IF f < n THEN inbox[f + 1] ELSE 0] \in [Field -> Byte]
      <4>1. ASSUME NEW f \in Field, f < n PROVE inbox[f + 1] \in Byte
        <5>1. f + 1 \in 1 .. Len(inbox)
          BY <3>1, <4>1, ConstTypes
        <5> QED BY <3>1, <5>1
      <4> QED BY <4>1, ConstTypes
    <3>3. tcpIn' \in [Tcp -> [Field -> Byte]]
      BY <1>a, <1>3, <3>2 DEF TypeTcp, TcpRecv
    <3>4. tcpTodo' \in [Tcp -> SUBSET Field]
      BY <1>a, <1>3, <3>1, ConstTypes DEF TypeTcp, TcpRecv
    <3> QED
      BY <1>a, <1>3, <3>3, <3>4
      DEF TypeTcp, TcpRecv, Goto, TcpPcs, CancelPoints
  <2>2. TypeNet'
    <3>1. n \in 1 .. 3 /\ n <= Len(inbox) /\ inbox \in Seq(Byte)
      BY <1>a, ConstTypes, <1>3 DEF TcpRecv, TypeNet
    <3>2. SubSeq(inbox, n + 1, Len(inbox)) \in Seq(Byte)
      BY <3>1
    <3> QED
      BY <1>a, <1>3, <3>2 DEF TypeNet, TcpRecv
  <2>3. TypeCmd' /\ TypeKey' /\ TypeUdp' /\ TypeDog' /\ TypeDrv'
    BY <1>a, <1>3 DEF TcpRecv, Goto, TypeCmd, TypeKey, TypeUdp, TypeDog, TypeDrv
  <2> QED BY <2>1, <2>2, <2>3 DEF TypeOK
<1>4. ASSUME NEW f \in Field, TcpCopy(t, f)
      PROVE  TypeOK'
  <2>1. TypeCmd'
    <3>1. tcpIn[t][f] \in Byte
      BY <1>a, <1>4 DEF TypeTcp
    <3>2. rawIn' \in [Field -> Byte]
      BY <1>a, <1>4, <3>1 DEF TypeCmd, TcpCopy
    <3> QED
      BY <1>a, ConstTypes, <1>4, <3>2 DEF TypeCmd, TcpCopy
  <2>2. TypeTcp'
    <3>1. tcpTodo' \in [Tcp -> SUBSET Field]
      BY <1>a, <1>4 DEF TypeTcp, TcpCopy
    <3>2. tcpPc' \in [Tcp -> TcpPcs]
      BY <1>a, <1>4 DEF TypeTcp, TcpCopy, TcpPcs, CancelPoints
    <3>3. tcpIn' \in [Tcp -> [Field -> Byte]]
      <4>1. Silent \in [Field -> Byte] BY ConstTypes
      <4>2. tcpIn' = tcpIn \/ tcpIn' = [tcpIn EXCEPT ![t] = Silent]
        BY <1>4 DEF TcpCopy
      <4> QED BY <1>a, <4>1, <4>2 DEF TypeTcp
    <3>4. recvOk' \in BOOLEAN
      BY <1>a, <1>4 DEF TypeTcp, TcpCopy
    <3> QED
      BY <1>a, <1>4, <3>1, <3>2, <3>3, <3>4 DEF TypeTcp, TcpCopy
  <2>3. TypeKey' /\ TypeUdp' /\ TypeNet' /\ TypeDog' /\ TypeDrv'
    BY <1>a, <1>4 DEF TcpCopy, Goto, TypeKey, TypeUdp, TypeNet, TypeDog, TypeDrv
  <2> QED BY <2>1, <2>2, <2>3 DEF TypeOK
<1>5. CASE TcpRecvEnds(t)
  <2>1. TypeTcp'
    BY <1>a, ConstTypes, <1>5
    DEF TypeTcp, TcpRecvEnds, Goto, TcpPcs, CancelPoints
  <2>2. TypeCmd' /\ TypeKey' /\ TypeUdp' /\ TypeNet' /\ TypeDog' /\ TypeDrv'
    BY <1>a, <1>5 DEF TcpRecvEnds, Goto, TypeCmd, TypeKey, TypeUdp, TypeNet, TypeDog, TypeDrv
  <2> QED BY <2>1, <2>2 DEF TypeOK
<1>6. CASE TcpConnected(t)
  <2>1. TypeTcp'
    BY <1>a, ConstTypes, <1>6
    DEF TypeTcp, TcpConnected, Goto, TcpPcs, CancelPoints
  <2>2. TypeCmd' /\ TypeKey' /\ TypeUdp' /\ TypeNet' /\ TypeDog' /\ TypeDrv'
    BY <1>a, <1>6 DEF TcpConnected, Goto, TypeCmd, TypeKey, TypeUdp, TypeNet, TypeDog, TypeDrv
  <2> QED BY <2>1, <2>2 DEF TypeOK
<1>7. CASE TcpReset(t)
  <2>1. TypeCmd'
    BY <1>a, ConstTypes, <1>7
    DEF TypeCmd, TcpReset, Goto
  <2>2. TypeTcp'
    BY <1>a, ConstTypes, <1>7
    DEF TypeTcp, TcpReset, Goto, TcpPcs, CancelPoints
  <2>3. TypeKey' /\ TypeUdp' /\ TypeNet' /\ TypeDog' /\ TypeDrv'
    BY <1>a, <1>7 DEF TcpReset, Goto, TypeKey, TypeUdp, TypeNet, TypeDog, TypeDrv
  <2> QED BY <2>1, <2>2, <2>3 DEF TypeOK
<1>8. CASE TcpArm(t)
  <2>1. TypeCmd'
    BY <1>a, ConstTypes, <1>8
    DEF TypeCmd, TcpArm, Goto
  <2>2. TypeTcp'
    BY <1>a, ConstTypes, <1>8
    DEF TypeTcp, TcpArm, Goto, TcpPcs, CancelPoints
  <2>3. TypeKey' /\ TypeUdp' /\ TypeNet' /\ TypeDog' /\ TypeDrv'
    BY <1>a, <1>8 DEF TcpArm, Goto, TypeKey, TypeUdp, TypeNet, TypeDog, TypeDrv
  <2> QED BY <2>1, <2>2, <2>3 DEF TypeOK
<1>9. CASE TcpLock(t)
  <2>1. TypeTcp'
    BY <1>a, ConstTypes, <1>9
    DEF TypeTcp, TcpLock, Goto, TcpPcs, CancelPoints
  <2>2. TypeCmd' /\ TypeKey' /\ TypeUdp' /\ TypeNet' /\ TypeDog' /\ TypeDrv'
    BY <1>a, <1>9 DEF TcpLock, Goto, TypeCmd, TypeKey, TypeUdp, TypeNet, TypeDog, TypeDrv
  <2> QED BY <2>1, <2>2 DEF TypeOK
<1>10. CASE TcpSend(t)
  <2>1. TypeTcp'
    BY <1>a, ConstTypes, <1>10
    DEF TypeTcp, TcpSend, Goto, Transmit, TcpPcs, CancelPoints
  <2>2. TypeNet'
    BY <1>a, ConstTypes, <1>10
    DEF TypeNet, TcpSend, Goto, Transmit
  <2>3. TypeCmd' /\ TypeKey' /\ TypeUdp' /\ TypeDog' /\ TypeDrv'
    BY <1>a, <1>10 DEF TcpSend, Goto, Transmit, TypeCmd, TypeKey, TypeUdp, TypeDog, TypeDrv
  <2> QED BY <2>1, <2>2, <2>3 DEF TypeOK
<1>11. CASE TcpUnlock(t)
  <2>1. TypeTcp'
    BY <1>a, ConstTypes, <1>11
    DEF TypeTcp, TcpUnlock, Goto, TcpPcs, CancelPoints
  <2>2. TypeCmd' /\ TypeKey' /\ TypeUdp' /\ TypeNet' /\ TypeDog' /\ TypeDrv'
    BY <1>a, <1>11 DEF TcpUnlock, Goto, TypeCmd, TypeKey, TypeUdp, TypeNet, TypeDog, TypeDrv
  <2> QED BY <2>1, <2>2 DEF TypeOK
<1>12. CASE TcpSimu(t)
  <2>1. TypeTcp'
    BY <1>a, ConstTypes, <1>12
    DEF TypeTcp, TcpSimu, Goto, Transmit, TcpPcs, CancelPoints
  <2>2. TypeNet'
    BY <1>a, ConstTypes, <1>12
    DEF TypeNet, TcpSimu, Goto, Transmit
  <2>3. TypeCmd' /\ TypeKey' /\ TypeUdp' /\ TypeDog' /\ TypeDrv'
    BY <1>a, <1>12 DEF TcpSimu, Goto, Transmit, TypeCmd, TypeKey, TypeUdp, TypeDog, TypeDrv
  <2> QED BY <2>1, <2>2, <2>3 DEF TypeOK
<1>13. CASE TcpLoop(t)
  <2>1. TypeTcp'
    BY <1>a, ConstTypes, <1>13
    DEF TypeTcp, TcpLoop, Goto, TcpPcs, CancelPoints
  <2>2. TypeCmd' /\ TypeKey' /\ TypeUdp' /\ TypeNet' /\ TypeDog' /\ TypeDrv'
    BY <1>a, <1>13 DEF TcpLoop, Goto, TypeCmd, TypeKey, TypeUdp, TypeNet, TypeDog, TypeDrv
  <2> QED BY <2>1, <2>2 DEF TypeOK
<1>14. CASE TcpHangup(t)
  <2>1. TypeTcp'
    BY <1>a, ConstTypes, <1>14
    DEF TypeTcp, TcpHangup, Goto, TcpPcs, CancelPoints
  <2>2. TypeCmd' /\ TypeKey' /\ TypeUdp' /\ TypeNet' /\ TypeDog' /\ TypeDrv'
    BY <1>a, <1>14 DEF TcpHangup, Goto, TypeCmd, TypeKey, TypeUdp, TypeNet, TypeDog, TypeDrv
  <2> QED BY <2>1, <2>2 DEF TypeOK
<1>15. CASE TcpClose(t)
  <2>1. TypeTcp'
    BY <1>a, ConstTypes, <1>15
    DEF TypeTcp, TcpClose, Goto, TcpPcs, CancelPoints
  <2>2. TypeNet'
    BY <1>a, ConstTypes, <1>15
    DEF TypeNet, TcpClose, Goto
  <2>3. TypeCmd' /\ TypeKey' /\ TypeUdp' /\ TypeDog' /\ TypeDrv'
    BY <1>a, <1>15 DEF TcpClose, Goto, TypeCmd, TypeKey, TypeUdp, TypeDog, TypeDrv
  <2> QED BY <2>1, <2>2, <2>3 DEF TypeOK
<1>16. CASE TcpDie(t)
  <2>1. TypeTcp'
    BY <1>a, ConstTypes, <1>16
    DEF TypeTcp, TcpDie, Goto, TcpPcs, CancelPoints
  <2>2. TypeCmd' /\ TypeKey' /\ TypeUdp' /\ TypeNet' /\ TypeDog' /\ TypeDrv'
    BY <1>a, <1>16 DEF TcpDie, Goto, TypeCmd, TypeKey, TypeUdp, TypeNet, TypeDog, TypeDrv
  <2> QED BY <2>1, <2>2 DEF TypeOK
<1> QED
  BY <1>1, <1>2, <1>3, <1>4, <1>5, <1>6, <1>7, <1>8, <1>9, <1>10, <1>11, <1>12, <1>13, <1>14, <1>15, <1>16
  DEF TcpThread

\* The steps of Thread_Dog.
LEMMA DogTypes == ASSUME TypeOK, CountInv, DogThread PROVE TypeOK'
<1> USE DEF dogOthers, cmdVars, udpVars, tcpVars, lifeVars, netVars, dogVars, keyVars, drvVars
<1>a. TypeCmd /\ TypeKey /\ TypeUdp /\ TypeTcp /\ TypeNet /\ TypeDog /\ TypeDrv
  BY DEF TypeOK
<1>1. CASE DogTop
  <2>1. TypeDog'
    BY <1>a, ConstTypes, <1>1
    DEF TypeDog, DogTop, DogGoto, DogPcs
  <2>2. TypeCmd' /\ TypeKey' /\ TypeUdp' /\ TypeTcp' /\ TypeNet' /\ TypeDrv'
    BY <1>a, <1>1 DEF DogTop, TypeCmd, TypeKey, TypeUdp, TypeTcp, TypeNet, TypeDrv
  <2> QED BY <2>1, <2>2 DEF TypeOK
<1>2. CASE DogLoad
  <2>1. TypeDog'
    BY <1>a, ConstTypes, <1>2
    DEF TypeDog, DogLoad, DogGoto, TypeCmd, DogPcs
  <2>2. TypeCmd' /\ TypeKey' /\ TypeUdp' /\ TypeTcp' /\ TypeNet' /\ TypeDrv'
    BY <1>a, <1>2 DEF DogLoad, TypeCmd, TypeKey, TypeUdp, TypeTcp, TypeNet, TypeDrv
  <2> QED BY <2>1, <2>2 DEF TypeOK
<1>3. CASE DogStore
  <2>1. TypeCmd'
    BY <1>a, ConstTypes, <1>3
    DEF TypeCmd, DogStore, DogGoto, Period, CountInv, TypeDog
  <2>2. TypeDog'
    BY <1>a, ConstTypes, <1>3
    DEF TypeDog, DogStore, DogGoto, Period, CountInv, DogPcs
  <2>3. TypeKey' /\ TypeUdp' /\ TypeTcp' /\ TypeNet' /\ TypeDrv'
    BY <1>a, <1>3 DEF DogStore, TypeKey, TypeUdp, TypeTcp, TypeNet, TypeDrv
  <2> QED BY <2>1, <2>2, <2>3 DEF TypeOK
<1>4. CASE DogTest
  <2>1. TypeCmd'
    BY <1>a, ConstTypes, <1>4
    DEF TypeCmd, DogTest, DogGoto, Period
  <2>2. TypeDog'
    BY <1>a, ConstTypes, <1>4
    DEF TypeDog, DogTest, DogGoto, Period, DogPcs
  <2>3. TypeKey' /\ TypeUdp' /\ TypeTcp' /\ TypeNet' /\ TypeDrv'
    BY <1>a, <1>4 DEF DogTest, TypeKey, TypeUdp, TypeTcp, TypeNet, TypeDrv
  <2> QED BY <2>1, <2>2, <2>3 DEF TypeOK
<1>5. CASE DogZero1
  <2>1. TypeKey'
    BY <1>a, ConstTypes, <1>5
    DEF TypeKey, DogZero1, DogGoto
  <2>2. TypeDog'
    BY <1>a, ConstTypes, <1>5
    DEF TypeDog, DogZero1, DogGoto, DogPcs
  <2>3. TypeCmd' /\ TypeUdp' /\ TypeTcp' /\ TypeNet' /\ TypeDrv'
    BY <1>a, <1>5 DEF DogZero1, TypeCmd, TypeUdp, TypeTcp, TypeNet, TypeDrv
  <2> QED BY <2>1, <2>2, <2>3 DEF TypeOK
<1>6. CASE DogZero2
  <2>1. TypeKey'
    BY <1>a, ConstTypes, <1>6
    DEF TypeKey, DogZero2, DogGoto
  <2>2. TypeDog'
    BY <1>a, ConstTypes, <1>6
    DEF TypeDog, DogZero2, DogGoto, DogPcs
  <2>3. TypeCmd' /\ TypeUdp' /\ TypeTcp' /\ TypeNet' /\ TypeDrv'
    BY <1>a, <1>6 DEF DogZero2, TypeCmd, TypeUdp, TypeTcp, TypeNet, TypeDrv
  <2> QED BY <2>1, <2>2, <2>3 DEF TypeOK
<1>7. CASE DogLeft
  <2>1. TypeCmd'
    BY <1>a, ConstTypes, <1>7
    DEF TypeCmd, DogLeft, DogGoto, TypeKey
  <2>2. TypeDog'
    BY <1>a, ConstTypes, <1>7
    DEF TypeDog, DogLeft, DogGoto, TypeKey, DogPcs
  <2>3. TypeKey' /\ TypeUdp' /\ TypeTcp' /\ TypeNet' /\ TypeDrv'
    BY <1>a, <1>7 DEF DogLeft, TypeKey, TypeUdp, TypeTcp, TypeNet, TypeDrv
  <2> QED BY <2>1, <2>2, <2>3 DEF TypeOK
<1>8. CASE DogRight
  <2>1. TypeCmd'
    BY <1>a, ConstTypes, <1>8
    DEF TypeCmd, DogRight, DogGoto, TypeKey
  <2>2. TypeDog'
    BY <1>a, ConstTypes, <1>8
    DEF TypeDog, DogRight, DogGoto, TypeKey, DogPcs
  <2>3. TypeKey' /\ TypeUdp' /\ TypeTcp' /\ TypeNet' /\ TypeDrv'
    BY <1>a, <1>8 DEF DogRight, TypeKey, TypeUdp, TypeTcp, TypeNet, TypeDrv
  <2> QED BY <2>1, <2>2, <2>3 DEF TypeOK
<1>9. CASE DogCheck
  <2>1. TypeCmd'
    BY <1>a, ConstTypes, <1>9
    DEF TypeCmd, DogCheck, DogGoto, Period
  <2>2. TypeTcp'
    BY <1>a, ConstTypes, <1>9
    DEF TypeTcp, DogCheck, DogGoto, Period, TcpPcs, CancelPoints
  <2>3. TypeDog'
    BY <1>a, ConstTypes, <1>9
    DEF TypeDog, DogCheck, DogGoto, Period, DogPcs
  <2>4. TypeKey' /\ TypeUdp' /\ TypeNet' /\ TypeDrv'
    BY <1>a, <1>9 DEF DogCheck, TypeKey, TypeUdp, TypeNet, TypeDrv
  <2> QED BY <2>1, <2>2, <2>3, <2>4 DEF TypeOK
<1>10. CASE DogCancel
  <2>1. TypeTcp'
    BY <1>a, ConstTypes, <1>10
    DEF TypeTcp, DogCancel, DogGoto, TcpPcs, CancelPoints
  <2>2. TypeNet'
    <3>1. backlog' \in BOOLEAN
      BY <1>10 DEF DogCancel
    <3>2. inbox' \in Seq(Byte) /\ conn' \in {"none", "open", "eof", "reset"}
      BY <1>10 DEF DogCancel
    <3>3. conns' \in 0 .. MaxConns
      BY <1>a, <1>10 DEF DogCancel, TypeNet
    <3> QED BY <3>1, <3>2, <3>3 DEF TypeNet
  <2>3. TypeDog'
    BY <1>a, ConstTypes, <1>10
    DEF TypeDog, DogCancel, DogGoto, DogPcs
  <2>4. TypeCmd' /\ TypeKey' /\ TypeUdp' /\ TypeDrv'
    BY <1>a, <1>10 DEF DogCancel, TypeCmd, TypeKey, TypeUdp, TypeDrv
  <2> QED BY <2>1, <2>2, <2>3, <2>4 DEF TypeOK
<1>11. CASE DogCreate
  <2>1. TypeCmd'
    BY <1>a, ConstTypes, <1>11
    DEF TypeCmd, DogCreate, DogGoto, Period
  <2>2. TypeTcp'
    BY <1>a, ConstTypes, <1>11
    DEF TypeTcp, DogCreate, DogGoto, Period, TcpPcs, CancelPoints
  <2>3. TypeDog'
    BY <1>a, ConstTypes, <1>11
    DEF TypeDog, DogCreate, DogGoto, Period, DogPcs
  <2>4. TypeKey' /\ TypeUdp' /\ TypeNet' /\ TypeDrv'
    BY <1>a, <1>11 DEF DogCreate, TypeKey, TypeUdp, TypeNet, TypeDrv
  <2> QED BY <2>1, <2>2, <2>3, <2>4 DEF TypeOK
<1> QED
  BY <1>1, <1>2, <1>3, <1>4, <1>5, <1>6, <1>7, <1>8, <1>9, <1>10, <1>11
  DEF DogThread

\* The steps of main, Thread_RS232_33f and the client, and the exit of Thread_Dog.
LEMMA OtherTypes ==
    ASSUME TypeOK, MainThread \/ DriveThread \/ Client \/ DogCreateFails PROVE TypeOK'
<1> USE DEF keyOthers, drvOthers, netOthers, cmdVars, udpVars, tcpVars, lifeVars, netVars, dogVars, keyVars, drvVars
<1>a. TypeCmd /\ TypeKey /\ TypeUdp /\ TypeTcp /\ TypeNet /\ TypeDog /\ TypeDrv
  BY DEF TypeOK
<1>1. CASE KeyLoad
  <2>1. TypeKey'
    BY <1>a, ConstTypes, <1>1
    DEF TypeKey, KeyLoad
  <2>2. TypeCmd' /\ TypeUdp' /\ TypeTcp' /\ TypeNet' /\ TypeDog' /\ TypeDrv'
    BY <1>a, <1>1 DEF KeyLoad, TypeCmd, TypeUdp, TypeTcp, TypeNet, TypeDog, TypeDrv
  <2> QED BY <2>1, <2>2 DEF TypeOK
<1>2. CASE KeyStore
  <2>1. TypeCmd'
    BY <1>a, ConstTypes, <1>2
    DEF TypeCmd, KeyStore
  <2>2. TypeKey'
    BY <1>a, ConstTypes, <1>2
    DEF TypeKey, KeyStore
  <2>3. TypeUdp' /\ TypeTcp' /\ TypeNet' /\ TypeDog' /\ TypeDrv'
    BY <1>a, <1>2 DEF KeyStore, TypeUdp, TypeTcp, TypeNet, TypeDog, TypeDrv
  <2> QED BY <2>1, <2>2, <2>3 DEF TypeOK
<1>3. ASSUME NEW ok \in PortOpens, DriveOpen(ok)
      PROVE  TypeOK'
  <2>1. TypeKey'
    BY <1>a, ConstTypes, <1>3
    DEF TypeKey, DriveOpen
  <2>2. TypeDrv'
    BY <1>a, ConstTypes, <1>3
    DEF TypeDrv, DriveOpen
  <2>3. TypeCmd' /\ TypeUdp' /\ TypeTcp' /\ TypeNet' /\ TypeDog'
    BY <1>a, <1>3 DEF DriveOpen, TypeCmd, TypeUdp, TypeTcp, TypeNet, TypeDog
  <2> QED BY <2>1, <2>2, <2>3 DEF TypeOK
<1>4. CASE DriveField
  <2>1. TypeDrv'
    BY <1>a, ConstTypes, <1>4
    DEF TypeDrv, DriveField, TypeCmd
  <2>2. TypeCmd' /\ TypeKey' /\ TypeUdp' /\ TypeTcp' /\ TypeNet' /\ TypeDog'
    BY <1>a, <1>4 DEF DriveField, TypeCmd, TypeKey, TypeUdp, TypeTcp, TypeNet, TypeDog
  <2> QED BY <2>1, <2>2 DEF TypeOK
<1>5. CASE Telemetry
  <2>1. TypeDrv'
    BY <1>a, ConstTypes, <1>5
    DEF TypeDrv, Telemetry
  <2>2. TypeCmd' /\ TypeKey' /\ TypeUdp' /\ TypeTcp' /\ TypeNet' /\ TypeDog'
    BY <1>a, <1>5 DEF Telemetry, TypeCmd, TypeKey, TypeUdp, TypeTcp, TypeNet, TypeDog
  <2> QED BY <2>1, <2>2 DEF TypeOK
<1>6. CASE ClientConnect
  <2>1. TypeNet'
    BY <1>a, ConstTypes, <1>6
    DEF TypeNet, ClientConnect
  <2>2. TypeCmd' /\ TypeKey' /\ TypeUdp' /\ TypeTcp' /\ TypeDog' /\ TypeDrv'
    BY <1>a, <1>6 DEF ClientConnect, TypeCmd, TypeKey, TypeUdp, TypeTcp, TypeDog, TypeDrv
  <2> QED BY <2>1, <2>2 DEF TypeOK
<1>7. ASSUME NEW frame \in Frames, ClientSend(frame)
      PROVE  TypeOK'
  <2>1. TypeUdp'
    BY <1>a, ConstTypes, <1>7, ConstantsAssumption
    DEF TypeUdp, ClientSend, UdpPcs
  <2>2. TypeNet'
    BY <1>a, ConstTypes, <1>7, ConstantsAssumption
    DEF TypeNet, ClientSend
  <2>3. TypeCmd' /\ TypeKey' /\ TypeTcp' /\ TypeDog' /\ TypeDrv'
    BY <1>a, <1>7 DEF ClientSend, TypeCmd, TypeKey, TypeTcp, TypeDog, TypeDrv
  <2> QED BY <2>1, <2>2, <2>3 DEF TypeOK
<1>8. CASE ClientClose
  <2>1. TypeNet'
    BY <1>a, ConstTypes, <1>8
    DEF TypeNet, ClientClose
  <2>2. TypeCmd' /\ TypeKey' /\ TypeUdp' /\ TypeTcp' /\ TypeDog' /\ TypeDrv'
    BY <1>a, <1>8 DEF ClientClose, TypeCmd, TypeKey, TypeUdp, TypeTcp, TypeDog, TypeDrv
  <2> QED BY <2>1, <2>2 DEF TypeOK
<1>9. CASE DogCreateFails
  <2>1. TypeTcp'
    BY <1>a, <1>9 DEF DogCreateFails, TypeTcp
  <2>2. TypeCmd' /\ TypeKey' /\ TypeUdp' /\ TypeNet' /\ TypeDog' /\ TypeDrv'
    BY <1>a, <1>9 DEF DogCreateFails, TypeCmd, TypeKey, TypeUdp, TypeNet, TypeDog, TypeDrv
  <2> QED BY <2>1, <2>2 DEF TypeOK
<1> QED
  BY <1>1, <1>2, <1>3, <1>4, <1>5, <1>6, <1>7, <1>8, <1>9
  DEF MainThread, DriveThread, Client

-----------------------------------------------------------------------------
(* What the other threads can do to the watchdog *)

\* A step that is not Thread_Dog's leaves the watchdog's state alone, or is an
\* operator store: it makes quiet 0, and may reset watchdog and arm cycles.
OperatorStep ==
    /\ UNCHANGED <<dogPc, dogTmp>>
    /\ speed2' \in {speed2, 0}
    /\ \/ /\ UNCHANGED <<watchdog, cycles, rawIn, quiet>>
          /\ speed1' \in {speed1, 0}
       \/ /\ quiet' = 0
          /\ watchdog' \in {watchdog, 0}
          /\ cycles' \in {cycles, Limit}

\* A step of the UDP command thread is an operator step.
LEMMA UdpShape == ASSUME UdpThread PROVE OperatorStep
<1> USE DEF OperatorStep, udpOthers, dogVars, cmdVars
<1>1. ASSUME NEW frame \in Frames, NEW len \in DatagramLens, UdpRecv(frame, len)
      PROVE  OperatorStep
  BY <1>1 DEF UdpRecv
<1>2. CASE UdpReset
  BY <1>2 DEF UdpReset
<1>3. ASSUME NEW f \in Field, UdpCopy(f)
      PROVE  OperatorStep
  BY <1>3 DEF UdpCopy
<1>4. CASE UdpArm
  BY <1>4 DEF UdpArm
<1> QED BY <1>1, <1>2, <1>3, <1>4 DEF UdpThread

\* A step of Thread_TCP is an operator step.
LEMMA TcpShape == ASSUME NEW t \in Tcp, TcpThread(t) PROVE OperatorStep
<1> USE DEF OperatorStep, tcpOthers, dogVars, cmdVars
<1>1. CASE TcpReset(t)
  BY <1>1 DEF TcpReset
<1>2. CASE TcpArm(t)
  BY <1>2 DEF TcpArm
<1>3. ASSUME NEW f \in Field, TcpCopy(t, f)
      PROVE  OperatorStep
  BY <1>3 DEF TcpCopy
<1>4. ASSUME NEW n \in 1 .. FrameLen, TcpRecv(t, n)
      PROVE  OperatorStep
  BY <1>4 DEF TcpRecv
<1>5. CASE TcpAccept(t) \/ TcpAcceptFails(t) \/ TcpRecvEnds(t) \/ TcpConnected(t)
  BY <1>5 DEF TcpAccept, TcpAcceptFails, TcpRecvEnds, TcpConnected
<1>6. CASE TcpLock(t) \/ TcpSend(t) \/ TcpUnlock(t) \/ TcpSimu(t)
  BY <1>6 DEF TcpLock, TcpSend, TcpUnlock, TcpSimu
<1>7. CASE TcpLoop(t) \/ TcpHangup(t) \/ TcpClose(t) \/ TcpDie(t)
  BY <1>7 DEF TcpLoop, TcpHangup, TcpClose, TcpDie
<1> QED
  BY <1>1, <1>2, <1>3, <1>4, <1>5, <1>6, <1>7 DEF TcpThread

\* A step of main(), of the serial thread or of the client is an operator step, and so is
\* the exit of Thread_Dog, which leaves the commands alone.
LEMMA OtherShape ==
    ASSUME MainThread \/ DriveThread \/ Client \/ DogCreateFails PROVE OperatorStep
<1> USE DEF OperatorStep, keyOthers, drvOthers, netOthers, dogVars, cmdVars
<1>1. CASE MainThread
  BY <1>1 DEF MainThread, KeyLoad, KeyStore
<1>2. CASE DriveThread
  BY <1>2 DEF DriveThread, DriveOpen, DriveField, Telemetry
<1>3. CASE Client
  BY <1>3 DEF Client, ClientConnect, ClientSend, ClientClose
<1>4. CASE DogCreateFails
  BY <1>4 DEF DogCreateFails
<1> QED BY <1>1, <1>2, <1>3, <1>4

\* A step of Next is an operator's or the watchdog's.
LEMMA NextShape == ASSUME Next PROVE OperatorStep \/ DogThread
BY UdpShape, TcpShape, OtherShape DEF Next

\* Operator stores keep the invariant: they void what silence promised.
LEMMA OperatorKeeps ==
    ASSUME IInv, OperatorStep PROVE CountInv' /\ SilenceInv' /\ ZeroInv'
<1>1. /\ watchdog \in Nat /\ cycles \in {0, Limit} /\ quiet \in Nat
      /\ dogTmp \in Nat /\ Limit \in Nat /\ Limit > 0
  BY ConstTypes DEF IInv, TypeOK, TypeCmd, TypeDog
<1>2. CountInv'
  BY <1>1 DEF IInv, CountInv, OperatorStep
<1>3. SilenceInv'
  BY <1>1 DEF IInv, SilenceInv, OperatorStep
<1>4. ZeroInv'
  BY <1>1 DEF IInv, ZeroInv, OperatorStep, Moving
<1> QED BY <1>2, <1>3, <1>4

-----------------------------------------------------------------------------
(* The watchdog *)

\* The steps of Thread_Dog preserve the inductive invariant.
LEMMA DogKeeps ==
    ASSUME IInv, DogThread PROVE CountInv' /\ SilenceInv' /\ ZeroInv'
<1>a. /\ watchdog \in Nat /\ cycles \in {0, Limit} /\ quiet \in Nat
      /\ dogTmp \in Nat /\ Limit \in Nat /\ Limit > 0 /\ QuietBound = Limit + 2
      /\ quiet <= QuietBound
      /\ rawIn \in [{0, 1, 2} -> Byte] /\ Left = 0 /\ Right = 1
  BY ConstTypes DEF IInv, TypeOK, TypeCmd, TypeDog
<1>b. CountInv /\ SilenceInv /\ ZeroInv
  BY DEF IInv
<1> USE DEF CountInv, SilenceInv, ZeroInv, DogGoto, dogOthers
<1>1. CASE DogTop
  BY <1>a, <1>b, <1>1 DEF DogTop
<1>2. CASE DogLoad
  BY <1>a, <1>b, <1>2 DEF DogLoad
<1>3. CASE DogStore
  BY <1>a, <1>b, <1>3 DEF DogStore, Period
<1>4. CASE DogTest
  BY <1>a, <1>b, <1>4 DEF DogTest, Period
<1>5. CASE DogZero1
  BY <1>a, <1>b, <1>5 DEF DogZero1
<1>6. CASE DogZero2
  BY <1>a, <1>b, <1>6 DEF DogZero2
<1>7. CASE DogLeft
  BY <1>a, <1>b, <1>7 DEF DogLeft, Moving
<1>8. CASE DogRight
  BY <1>a, <1>b, <1>8 DEF DogRight, Moving
<1>9. CASE DogCheck
  BY <1>a, <1>b, <1>9 DEF DogCheck, Period
<1>10. CASE DogCancel
  BY <1>a, <1>b, <1>10 DEF DogCancel, cmdVars
<1>11. CASE DogCreate
  BY <1>a, <1>b, <1>11 DEF DogCreate, Period, cmdVars
<1> QED
  BY DogThread, <1>1, <1>2, <1>3, <1>4, <1>5, <1>6, <1>7, <1>8, <1>9, <1>10, <1>11
  DEF DogThread

-----------------------------------------------------------------------------
(* The theorems *)

\* The initial state satisfies the inductive invariant.
LEMMA InitInv == Init => IInv
<1> SUFFICES ASSUME Init PROVE IInv
  OBVIOUS
<1>1. TypeCmd /\ TypeKey /\ TypeUdp
  BY ConstTypes DEF Init, TypeCmd, TypeKey, TypeUdp, UdpPcs
<1>2. TypeTcp
  <2>1. tcpPc \in [Tcp -> TcpPcs]
    BY DEF Init, TcpPcs, CancelPoints
  <2>2. tcpTodo \in [Tcp -> SUBSET Field] /\ tcpIn \in [Tcp -> [Field -> Byte]]
    BY ConstTypes DEF Init
  <2>3. thread0 \in Tcp /\ cancelled \in SUBSET Tcp /\ mutex \in Tcp \cup {NoThread}
    BY ConstTypes DEF Init
  <2>4. connected \in BOOLEAN /\ recvOk \in BOOLEAN /\ alive \in BOOLEAN
    BY DEF Init
  <2> QED BY <2>1, <2>2, <2>3, <2>4 DEF TypeTcp
<1>3. TypeNet /\ TypeDog /\ TypeDrv
  <2>1. backlog \in BOOLEAN
    BY DEF Init
  <2>2. inbox \in Seq(Byte) /\ conn \in {"none", "open", "eof", "reset"}
    BY DEF Init
  <2>3. conns \in 0 .. MaxConns
    BY ConstTypes DEF Init
  <2>4. TypeDog /\ TypeDrv
    BY ConstTypes DEF Init, TypeDog, TypeDrv, DogPcs
  <2> QED BY <2>1, <2>2, <2>3, <2>4 DEF TypeNet
<1>4. CountInv /\ SilenceInv /\ ZeroInv
  BY ConstTypes
  DEF Init, CountInv, SilenceInv, ZeroInv, Moving, Silent
<1> QED BY <1>1, <1>2, <1>3, <1>4 DEF IInv, TypeOK

\* Every step of every thread preserves the inductive invariant.
LEMMA NextInv == IInv /\ [Next]_vars => IInv'
<1> SUFFICES ASSUME IInv, [Next]_vars PROVE IInv'
  OBVIOUS
<1>1. CASE Next
  <2>1. TypeOK'
    BY <1>1, UdpTypes, TcpTypes, DogTypes, OtherTypes DEF Next, IInv
  <2>2. CountInv' /\ SilenceInv' /\ ZeroInv'
    BY <1>1, NextShape, OperatorKeeps, DogKeeps
  <2> QED BY <2>1, <2>2 DEF IInv
<1>2. CASE UNCHANGED vars
  <2> USE <1>2 DEF vars, cmdVars, udpVars, tcpVars, lifeVars, netVars, dogVars,
                   keyVars, drvVars
  <2>1. TypeOK'
    BY DEF IInv, TypeOK, TypeCmd, TypeKey, TypeUdp, TypeTcp, TypeNet, TypeDog,
           TypeDrv
  <2>2. CountInv' /\ SilenceInv' /\ ZeroInv'
    BY DEF IInv, CountInv, SilenceInv, ZeroInv, Moving
  <2> QED BY <2>1, <2>2 DEF IInv
<1> QED BY <1>1, <1>2

\* The inductive invariant holds of every behaviour of the robot server.
THEOREM Invariance == Spec => []IInv
BY InitInv, NextInv, PTL DEF Spec

\* Type correctness, whatever the frames, the limit, the debug mode and the
\* number of clients and threads.
THEOREM TypeCorrect == Spec => []TypeOK
<1>1. IInv => TypeOK
  BY DEF IInv
<1> QED BY Invariance, <1>1, PTL

\* The unprotected increment of Thread_Dog never takes watchdog past cycles, so
\* the equality test that stops the robot is always reached again.
THEOREM WatchdogStaysBounded == Spec => []WatchdogBounded
<1>1. IInv => WatchdogBounded
  BY DEF IInv, CountInv, WatchdogBounded
<1> QED BY Invariance, <1>1, PTL

\* The inductive invariant is strong enough for the stop after Limit + 2 periods.
LEMMA InvStops == IInv => StopWithinLimit
BY ConstTypes DEF IInv, TypeOK, TypeCmd, ZeroInv, StopWithinLimit

\* Limit + 2 watchdog periods of silence leave a stop in the shared frame.
THEOREM SilenceStops == Spec => []StopWithinLimit
BY Invariance, InvStops, PTL

\* The server starts as the switch does: silent for the whole deadline, at rest.
LEMMA SwitchInit == Init => Switch!Init
BY ConstTypes DEF Init, Switch!Init, Moving, Silent, QuietBound

\* Every step of the server is a step of the switch, or none of its business.
LEMMA SwitchStep == IInv /\ [Next]_vars => [Switch!Next]_(Switch!vars)
<1> SUFFICES ASSUME IInv, IInv', [Next]_vars
             PROVE  [Switch!Next]_(Switch!vars)
  BY NextInv
<1> USE DEF Switch!Next, Switch!vars, Switch!Command, Switch!Stop, Switch!Tick
<1>a. /\ quiet \in Nat /\ Limit \in Nat /\ QuietBound = Limit + 2
      /\ quiet <= QuietBound /\ cycles \in {0, Limit}
      /\ rawIn \in [{0, 1, 2} -> Byte] /\ Left = 0 /\ Right = 1
  BY ConstTypes DEF IInv, TypeOK, TypeCmd
<1>b. Moving(rawIn) \in BOOLEAN /\ Moving(rawIn)' \in BOOLEAN
  BY DEF Moving
<1>c. StopWithinLimit'
  BY InvStops, PTL
<1>1. CASE OperatorStep
  BY <1>1, <1>b DEF OperatorStep, Moving
<1>2. CASE UNCHANGED vars
  BY <1>2 DEF vars, cmdVars, Moving
<1>3. CASE DogThread
  <2>1. CASE UNCHANGED <<rawIn, quiet>>
    BY <2>1 DEF Moving
  <2>2. CASE Period /\ UNCHANGED rawIn
    <3>1. Moving(rawIn)' = Moving(rawIn)
      BY <2>2 DEF Moving
    <3> QED BY <1>a, <1>c, <2>2, <3>1 DEF Period, StopWithinLimit
  <2>3. CASE DogLeft \/ DogRight
    <3>1. CASE quiet = 0
      BY <1>b, <2>3, <3>1 DEF DogLeft, DogRight
    <3>2. CASE quiet > 0
      <4>1. Moving(rawIn)' => Moving(rawIn)
        BY <1>a, <2>3, <3>2
        DEF DogLeft, DogRight, DogGoto, IInv, ZeroInv, Moving
      <4>2. quiet' = quiet
        BY <2>3 DEF DogLeft, DogRight
      <4> QED BY <1>b, <4>1, <4>2
    <3>3. quiet = 0 \/ quiet > 0
      BY <1>a
    <3> QED BY <3>1, <3>2, <3>3
  <2>4. CASE DogTop \/ DogLoad \/ DogZero1 \/ DogZero2 \/ DogCancel
    BY <2>1, <2>4 DEF DogTop, DogLoad, DogZero1, DogZero2, DogCancel
  <2>5. CASE DogStore \/ DogTest \/ DogCheck \/ DogCreate
    BY <2>1, <2>2, <2>5 DEF DogStore, DogTest, DogCheck, DogCreate, cmdVars
  <2> QED BY <1>3, <2>3, <2>4, <2>5 DEF DogThread
<1> QED BY <1>1, <1>2, <1>3, NextShape

\* The watchdog of the robot server implements the dead-man's switch: it stops
\* the robot by the deadline, and only an operator's store sets it in motion.
THEOREM WatchdogIsDeadMan == Spec => ImplementsDeadMan
BY Invariance, SwitchInit, SwitchStep, PTL
DEF Spec, ImplementsDeadMan, Switch!Spec

-----------------------------------------------------------------------------
(* mutex_raw_out *)

\* Threads are created in the order of their numbers, so that a new one is none that has
\* the lock.
Unborn == \A t \in Tcp : t > thread0 => tcpPc[t] = "unborn"

LockInv == AnswersAlone /\ Unborn

\* What a step of Thread_TCP does to the lock and to the places in the code.
LEMMA TcpLocks ==
    ASSUME TypeOK, NEW t \in Tcp, TcpThread(t)
    PROVE  /\ thread0' = thread0 /\ cancelled' = cancelled
           /\ \A u \in Tcp : u # t => tcpPc'[u] = tcpPc[u]
           /\ tcpPc[t] # "unborn"
           /\ \/ mutex = NoThread /\ mutex' = t /\ tcpPc'[t] \in Answering
              \/ tcpPc[t] \in Answering /\ mutex' = NoThread /\ tcpPc'[t] \notin Answering
              \/ mutex' = mutex /\ tcpPc'[t] = "dead" /\ t \in cancelled
              \/ /\ mutex' = mutex /\ tcpPc[t] # "dead"
                 /\ tcpPc[t] \in Answering <=> tcpPc'[t] \in Answering
<1> USE DEF tcpOthers, lifeVars, Goto, Answering
<1>a. tcpPc \in [Tcp -> TcpPcs]
  BY DEF TypeOK, TypeTcp
<1>1. CASE \/ TcpAccept(t) \/ TcpAcceptFails(t) \/ TcpRecvEnds(t)
           \/ \E n \in 1 .. FrameLen : TcpRecv(t, n)
  BY <1>a, <1>1 DEF TcpAccept, TcpAcceptFails, TcpRecvEnds, TcpRecv
<1>2. CASE \E f \in Field : TcpCopy(t, f)
  BY <1>a, <1>2 DEF TcpCopy
<1>3. CASE TcpConnected(t) \/ TcpReset(t) \/ TcpArm(t)
  BY <1>a, <1>3 DEF TcpConnected, TcpReset, TcpArm
<1>4. CASE TcpLock(t) \/ TcpSend(t) \/ TcpUnlock(t)
  BY <1>a, <1>4 DEF TcpLock, TcpSend, TcpUnlock
<1>5. CASE TcpSimu(t) \/ TcpLoop(t) \/ TcpHangup(t) \/ TcpClose(t)
  BY <1>a, <1>5 DEF TcpSimu, TcpLoop, TcpHangup, TcpClose
<1>6. CASE TcpDie(t)
  BY <1>a, <1>6 DEF TcpDie, CancelPoints
<1> QED BY <1>1, <1>2, <1>3, <1>4, <1>5, <1>6 DEF TcpThread

\* The lock and the numbers, whichever thread steps.
LEMMA LockStep == ASSUME TypeOK, LockInv, [Next]_vars PROVE LockInv'
<1>a. /\ tcpPc \in [Tcp -> TcpPcs] /\ mutex \in Tcp \cup {NoThread} /\ NoThread \notin Tcp
      /\ thread0 \in Tcp /\ Tcp \subseteq Nat
  BY ConstTypes DEF TypeOK, TypeTcp
<1>b. AnswersAlone /\ Unborn
  BY DEF LockInv
<1>1. CASE UNCHANGED <<mutex, tcpPc, thread0, cancelled>>
  BY <1>b, <1>1 DEF LockInv, AnswersAlone, Unborn
<1>2. ASSUME NEW t \in Tcp, TcpThread(t) PROVE LockInv'
  <2>1. AnswersAlone'
    BY <1>a, <1>b, <1>2, TcpLocks DEF AnswersAlone, Answering
  <2>2. Unborn'
    BY <1>a, <1>b, <1>2, TcpLocks DEF Unborn
  <2> QED BY <2>1, <2>2 DEF LockInv
<1>3. CASE DogCancel
  BY <1>b, <1>3 DEF DogCancel, dogOthers, tcpVars, LockInv, AnswersAlone, Unborn
<1>4. CASE DogCreate
  <2>1. /\ thread0' = thread0 + 1 /\ thread0' \in Tcp
        /\ tcpPc' = [tcpPc EXCEPT ![thread0'] = "accept"]
        /\ UNCHANGED <<mutex, cancelled>>
    BY <1>a, <1>4, ConstTypes DEF DogCreate
  <2>2. tcpPc[thread0'] = "unborn"
    BY <1>a, <1>b, <2>1 DEF Unborn
  <2>3. AnswersAlone'
    BY <1>a, <1>b, <2>1, <2>2 DEF AnswersAlone, Answering
  <2>4. Unborn'
    BY <1>a, <1>b, <2>1 DEF Unborn
  <2> QED BY <2>3, <2>4 DEF LockInv
<1>5. CASE DogThread /\ ~DogCancel /\ ~DogCreate
  <2>1. UNCHANGED <<mutex, tcpPc, thread0, cancelled>>
    BY <1>5
    DEF DogThread, DogTop, DogLoad, DogStore, DogTest, DogZero1, DogZero2, DogLeft, DogRight,
        DogCheck, dogOthers, tcpVars, lifeVars
  <2> QED BY <1>1, <2>1
<1>6. CASE UdpThread \/ MainThread \/ DriveThread \/ Client \/ DogCreateFails
  <2>1. UNCHANGED <<mutex, tcpPc, thread0, cancelled>>
    <3>1. CASE UdpThread
      BY <3>1 DEF UdpThread, UdpRecv, UdpReset, UdpCopy, UdpArm, udpOthers, tcpVars, lifeVars
    <3>2. CASE MainThread
      BY <3>2 DEF MainThread, KeyLoad, KeyStore, keyOthers, tcpVars, lifeVars
    <3>3. CASE DriveThread
      BY <3>3 DEF DriveThread, DriveOpen, DriveField, Telemetry, drvOthers, tcpVars, lifeVars
    <3>4. CASE Client
      BY <3>4 DEF Client, ClientConnect, ClientSend, ClientClose, netOthers, tcpVars, lifeVars
    <3>5. CASE DogCreateFails
      BY <3>5 DEF DogCreateFails, tcpVars, lifeVars
    <3> QED BY <1>6, <3>1, <3>2, <3>3, <3>4, <3>5
  <2> QED BY <1>1, <2>1
<1>7. CASE UNCHANGED vars
  BY <1>1, <1>7 DEF vars, tcpVars, lifeVars
<1> QED BY <1>2, <1>3, <1>4, <1>5, <1>6, <1>7 DEF Next

\* However often the watchdog replaces Thread_TCP, no two of its threads answer at the
\* same time, and none but one that was cancelled inside send keeps the lock.
THEOREM ThreadsAnswerAlone == Spec => []AnswersAlone
<1>1. Init => LockInv
  <2>1. Init => \A t \in Tcp : /\ tcpPc[t] \in {"accept", "unborn"}
                                 /\ t > thread0 => tcpPc[t] = "unborn"
    BY ConstTypes DEF Init
  <2> QED BY <2>1 DEF Init, LockInv, AnswersAlone, Answering, Unborn
<1>2. LockInv => AnswersAlone
  BY DEF LockInv
<1> QED BY <1>1, <1>2, LockStep, TypeCorrect, PTL DEF Spec
=============================================================================
