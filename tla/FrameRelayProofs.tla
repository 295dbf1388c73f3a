-------------------------- MODULE FrameRelayProofs --------------------------
(***************************************************************************)
(* Proofs about FrameRelay, for any number of consumers: its type          *)
(* invariant, that a consumer never passes on a mixture of two pictures    *)
(* nor goes back in time, and that nobody keeps the mutex.                 *)
(***************************************************************************)
EXTENDS FrameRelay, TLAPS

\* Whoever is inside holds the mutex, until shutdown destroys it.
Exclusion ==
    ~destroyed =>
        /\ camPc \in CamInside => db = "cam"
        /\ \A c \in Consumers : pc[c] \in ConInside => db = c

\* The published fields belong together, except while the camera thread is
\* between its three stores.
Published ==
    /\ camPc \notin {"size", "stamp"} => size = 0 \/ (data = size /\ stamp = size)
    /\ camPc = "size" => (whole => data = tmp)
    /\ camPc = "stamp" => size = 0 \/ (data = tmp /\ size = tmp)

\* What a consumer has copied so far is what is published now.
CopyOk(c) ==
    /\ pc[c] = "stamp" => got[c].size = size
    /\ pc[c] = "data" => /\ got[c].size = size
                         /\ c \in Workers \/ got[c].stamp = stamp
    /\ pc[c] \in {"unlock", "deliver"} => Consistent(c)

Copies == ~freed /\ ~destroyed => \A c \in Consumers : CopyOk(c)

IInv == TypeOK /\ Exclusion /\ Published /\ Copies

\* Pictures move down the line in the order of capture.
Ordered ==
    /\ tmp <= seq /\ data <= tmp
    /\ freed \/ \A c \in Consumers : got[c].data <= data
-----------------------------------------------------------------------------
\* The names of the camera thread and of the free mutex are no consumer's.
LEMMA Names ==
    /\ MaxFrames \in Nat /\ MaxFrames > 0 /\ Frame = 0 .. MaxFrames
    /\ \A c \in Consumers : c # "cam" /\ c # "free"
    /\ Workers \subseteq Consumers
    /\ Len(Out) \in Nat
BY RelayAssumption DEF Frame, Consumers

\* The steps of the camera thread keep the types.
LEMMA CamTypes == ASSUME TypeOK, CamThread PROVE TypeOK'
<1> USE DEF camOthers, bufVars, camVars, sigVars, conVars, CamGoto
<1>a. TypeBuf /\ TypeCam /\ TypeCon /\ TypeSig
  BY DEF TypeOK
<1>1. CASE CamTop \/ CamGrabEmpty \/ CamNap
  <2>1. TypeCam'
    BY <1>a, <1>1 DEF CamTop, CamGrabEmpty, CamNap, TypeCam, CamPcs
  <2>2. TypeBuf' /\ TypeCon' /\ TypeSig'
    BY <1>a, <1>1 DEF CamTop, CamGrabEmpty, CamNap, TypeBuf, TypeCon, TypeSig
  <2> QED BY <2>1, <2>2 DEF TypeOK
<1>2. CASE CamGrabSmall \/ \E marker \in BOOLEAN : CamGrab(marker)
  <2>1. TypeCam'
    BY <1>a, <1>2, Names DEF CamGrabSmall, CamGrab, Capture, TypeCam, CamPcs
  <2>2. TypeBuf' /\ TypeCon' /\ TypeSig'
    BY <1>a, <1>2 DEF CamGrabSmall, CamGrab, TypeBuf, TypeCon, TypeSig
  <2> QED BY <2>1, <2>2 DEF TypeOK
<1>3. CASE CamGrabFails
  BY <1>a, <1>3 DEF CamGrabFails, TypeOK, TypeBuf, TypeCam, TypeCon, TypeSig
<1>4. CASE CamLock \/ CamUnlock \/ CamCleanup
  <2>1. TypeCam' /\ TypeBuf'
    BY <1>a, <1>4 DEF CamLock, CamUnlock, CamCleanup, Acquire, Release, TypeCam,
                      TypeBuf, CamPcs
  <2>2. TypeCon' /\ TypeSig'
    BY <1>a, <1>4 DEF CamLock, CamUnlock, CamCleanup, TypeCon, TypeSig
  <2> QED BY <2>1, <2>2 DEF TypeOK
<1>5. CASE CamData \/ CamSize \/ CamStamp
  <2>1. TypeCam' /\ TypeBuf'
    BY <1>a, <1>5, Names DEF CamData, CamSize, CamStamp, TypeCam, TypeBuf, CamPcs
  <2>2. TypeCon' /\ TypeSig'
    BY <1>a, <1>5 DEF CamData, CamSize, CamStamp, TypeCon, TypeSig
  <2> QED BY <2>1, <2>2 DEF TypeOK
<1>6. CASE CamBroadcast
  <2>1. TypeCam' /\ TypeCon'
    BY <1>a, <1>6 DEF CamBroadcast, TypeCam, TypeCon, CamPcs
  <2>2. TypeBuf' /\ TypeSig'
    BY <1>a, <1>6 DEF CamBroadcast, TypeBuf, TypeSig
  <2> QED BY <2>1, <2>2 DEF TypeOK
<1> QED BY <1>1, <1>2, <1>3, <1>4, <1>5, <1>6 DEF CamThread, CamSteps

\* The steps of a consumer keep the types.
LEMMA ConTypes == ASSUME TypeOK, NEW c \in Consumers, Consumer(c) PROVE TypeOK'
<1> USE DEF conOthers, bufVars, camVars, sigVars
<1>a. TypeBuf /\ TypeCam /\ TypeCon /\ TypeSig
  BY DEF TypeOK
<1>b. UNCHANGED <<data, size, stamp, freed, camPc, seq, tmp, whole, stop, sigPc,
                  outIdx, cancelled, destroyed, exited>>
  BY DEF Consumer, ConSteps, ConTop, ConLock, ConWait, ConSpurious, ConWake,
         ConSize, ConNoMemory, ConStamp, ConData, ConUnlock, ConDeliver, ConDie
<1>1. TypeCam' /\ TypeSig'
  BY <1>a, <1>b DEF TypeCam, TypeSig
<1>2. db' \in {db, c, "free"}
  BY DEF Consumer, ConSteps, ConTop, ConLock, ConWait, ConSpurious, ConWake,
         ConSize, ConNoMemory, ConStamp, ConData, ConUnlock, ConDeliver, ConDie,
         Acquire, Release
<1>3. TypeBuf'
  BY <1>a, <1>b, <1>2 DEF TypeBuf
<1>4. waiting' \in SUBSET Consumers
  BY <1>a DEF TypeCon, Consumer, ConSteps, ConTop, ConLock, ConWait, ConSpurious,
         ConWake, ConSize, ConNoMemory, ConStamp, ConData, ConUnlock, ConDeliver,
         ConDie
<1>5. pc' = pc \/ \E p \in ConPcs : pc' = [pc EXCEPT ![c] = p]
  <2>1. CASE ConTop(c) \/ ConLock(c) \/ ConWait(c) \/ ConSpurious(c) \/ ConWake(c)
    BY <2>1 DEF ConTop, ConLock, ConWait, ConSpurious, ConWake, ConGoto, ConPcs
  <2>2. CASE ConSize(c) \/ ConNoMemory(c) \/ ConStamp(c) \/ ConData(c)
    BY <2>2 DEF ConSize, ConNoMemory, ConStamp, ConData, ConGoto, ConPcs
  <2>3. CASE ConUnlock(c) \/ ConDie(c) \/ \E ok \in BOOLEAN : ConDeliver(c, ok)
    BY <2>3 DEF ConUnlock, ConDie, ConDeliver, ConGoto, ConPcs
  <2> QED BY <2>1, <2>2, <2>3 DEF Consumer, ConSteps
<1>6. got' \in [Consumers -> [size : Frame, stamp : Frame, data : Frame]]
  <2>1. CASE got' = got
    BY <1>a, <2>1 DEF TypeCon
  <2>2. CASE ConSize(c) \/ ConStamp(c) \/ ConData(c)
    BY <1>a, <2>2 DEF ConSize, ConStamp, ConData, TypeCon, TypeBuf
  <2>3. CASE \E ok \in BOOLEAN : ConDeliver(c, ok)
    BY <1>a, <2>3, Names DEF ConDeliver, TypeCon
  <2> QED BY <2>1, <2>2, <2>3
          DEF Consumer, ConSteps, ConTop, ConLock, ConWait, ConSpurious, ConWake,
              ConNoMemory, ConUnlock, ConDie
<1>7. TypeCon'
  BY <1>a, <1>4, <1>5, <1>6 DEF TypeCon
<1> QED BY <1>1, <1>3, <1>7 DEF TypeOK

\* The steps of the signal handler keep the types.
LEMMA SigTypes == ASSUME TypeOK, Signal \/ Handler PROVE TypeOK'
<1> USE DEF sigOthers, bufVars, camVars, conVars
<1>a. TypeBuf /\ TypeCam /\ TypeCon /\ TypeSig
  BY DEF TypeOK
<1>1. TypeBuf' /\ TypeCam' /\ TypeCon'
  BY <1>a DEF Signal, Handler, StopInput, StopOutput, Destroy, Exit, TypeBuf, TypeCam, TypeCon
<1>2. CASE Signal \/ StopInput \/ Exit
  BY <1>a, <1>1, <1>2 DEF Signal, StopInput, Exit, TypeOK, TypeSig
<1>4. CASE Destroy
  BY <1>a, <1>1, <1>4, Names DEF Destroy, TypeOK, TypeSig
<1>3. CASE StopOutput
  <2>1. outIdx \in 1 .. Len(Out)
    BY <1>a, <1>3, Names DEF StopOutput, TypeSig
  <2>2. Out[outIdx] \in Workers \cup {NoWorker}
    BY <2>1, RelayAssumption
  <2>3. TypeSig'
    BY <1>a, <1>3, <2>1, <2>2, Names DEF StopOutput, TypeSig
  <2> QED BY <1>1, <2>3 DEF TypeOK
<1> QED BY <1>2, <1>3, <1>4 DEF Handler

-----------------------------------------------------------------------------
\* The camera thread preserves exclusion and publishes whole pictures; it stores
\* only while it holds the mutex, so no consumer is in the middle of a copy.
LEMMA CamKeeps == ASSUME IInv, CamThread PROVE Exclusion' /\ Published' /\ Copies'
<1> USE DEF camOthers, bufVars, camVars, sigVars, conVars, CamGoto
<1>a. TypeOK /\ Exclusion /\ Published /\ Copies
  BY DEF IInv
<1>b. UNCHANGED <<pc, got, destroyed>>
  BY DEF CamThread, CamSteps, CamTop, CamGrab, CamGrabSmall, CamGrabEmpty,
         CamGrabFails, CamLock, CamData, CamSize, CamStamp, CamBroadcast,
         CamUnlock, CamNap, CamCleanup
<1>1. CASE CamData \/ CamSize \/ CamStamp
  <2>1. Exclusion'
    BY <1>a, <1>1 DEF Exclusion, CamInside, CamData, CamSize, CamStamp
  <2>2. Published'
    BY <1>a, <1>1 DEF Published, CamData, CamSize, CamStamp
  <2>3. ~destroyed => \A c \in Consumers : pc[c] \notin ConInside
    BY <1>a, <1>1, Names DEF Exclusion, CamInside, CamData, CamSize, CamStamp
  <2>4. Copies'
    BY <1>a, <1>b, <1>1, <2>3
    DEF Copies, CopyOk, Consistent, ConInside, CamData, CamSize, CamStamp
  <2> QED BY <2>1, <2>2, <2>4
<1>2. CASE ~(CamData \/ CamSize \/ CamStamp)
  <2>1. UNCHANGED <<data, size, stamp>> /\ (freed => freed')
    BY <1>2 DEF CamThread, CamSteps, CamTop, CamGrab, CamGrabSmall, CamGrabEmpty,
         CamGrabFails, CamLock, CamBroadcast, CamUnlock, CamNap, CamCleanup
  <2>2. Copies'
    BY <1>a, <1>b, <2>1 DEF Copies, CopyOk, Consistent
  <2>3. camPc \notin {"size", "stamp"} /\ camPc' \notin {"size", "stamp"}
    BY <1>2 DEF CamThread, CamSteps, CamTop, CamGrab, CamGrabSmall, CamGrabEmpty,
         CamGrabFails, CamLock, CamBroadcast, CamUnlock, CamNap, CamCleanup
  <2>4. Published'
    BY <1>a, <2>1, <2>3 DEF Published
  <2>5. CASE CamLock
    BY <1>a, <1>b, <2>2, <2>4, <2>5, Names DEF Exclusion, CamLock, Acquire, CamInside
  <2>6. CASE CamUnlock
    BY <1>a, <1>b, <2>2, <2>4, <2>6, Names
    DEF Exclusion, CamUnlock, Release, CamInside
  <2>7. CASE ~CamLock /\ ~CamUnlock
    BY <1>a, <1>b, <1>2, <2>2, <2>4, <2>7
    DEF Exclusion, CamInside, CamThread, CamSteps, CamTop, CamGrab, CamGrabSmall,
        CamGrabEmpty, CamGrabFails, CamBroadcast, CamNap, CamCleanup
  <2> QED BY <2>2, <2>4, <2>5, <2>6, <2>7
<1> QED BY <1>1, <1>2

\* A consumer enters only when the mutex is free, and reads a published picture
\* that nobody can change before it unlocks.
LEMMA ConKeeps ==
    ASSUME IInv, NEW c \in Consumers, Consumer(c)
    PROVE  Exclusion' /\ Published' /\ Copies'
<1> USE DEF conOthers, bufVars, camVars, sigVars
<1>a. TypeOK /\ Exclusion /\ Published /\ Copies
  BY DEF IInv
<1>b. UNCHANGED <<data, size, stamp, freed, camPc, tmp, whole, destroyed>>
  BY DEF Consumer, ConSteps, ConTop, ConLock, ConWait, ConSpurious, ConWake,
         ConSize, ConNoMemory, ConStamp, ConData, ConUnlock, ConDeliver, ConDie
<1>c. pc \in [Consumers -> ConPcs]
  BY <1>a DEF TypeOK, TypeCon
<1>d. got \in [Consumers -> [size : Frame, stamp : Frame, data : Frame]]
  BY <1>a DEF TypeOK, TypeCon
<1>e. \A d \in Consumers : d # c => pc'[d] = pc[d] /\ got'[d] = got[d]
  BY <1>c, <1>d
  DEF Consumer, ConSteps, ConTop, ConLock, ConWait, ConSpurious, ConWake, ConSize,
      ConNoMemory, ConStamp, ConData, ConUnlock, ConDeliver, ConDie, ConGoto
<1>1. Published'
  BY <1>a, <1>b DEF Published
<1>2. ASSUME ~destroyed
      PROVE  /\ camPc \in CamInside => db' = "cam"
             /\ \A d \in Consumers : pc'[d] \in ConInside => db' = d
  <2>1. CASE ConLock(c) \/ ConWake(c)
    BY <1>a, <1>2, <1>c, <1>e, <2>1, Names
    DEF Exclusion, ConLock, ConWake, Acquire, ConGoto
  <2>2. CASE ConWait(c) \/ ConNoMemory(c) \/ ConUnlock(c)
    BY <1>a, <1>2, <1>c, <1>e, <2>2, Names
    DEF Exclusion, ConWait, ConNoMemory, ConUnlock, Release, ConGoto, ConInside
  <2>3. CASE ConDie(c)
    BY <1>a, <1>2, <1>c, <1>e, <2>3, Names
    DEF Exclusion, ConDie, Acquire, ConInside
  <2>4. CASE ConTop(c) \/ ConSpurious(c) \/ ConSize(c) \/ ConStamp(c) \/ ConData(c)
    BY <1>a, <1>2, <1>c, <1>e, <2>4, Names
    DEF Exclusion, ConTop, ConSpurious, ConSize, ConStamp, ConData, ConGoto,
        ConInside
  <2>5. CASE \E ok \in BOOLEAN : ConDeliver(c, ok)
    BY <1>a, <1>2, <1>c, <1>e, <2>5, Names
    DEF Exclusion, ConDeliver, ConGoto, ConInside
  <2> QED BY <2>1, <2>2, <2>3, <2>4, <2>5 DEF Consumer, ConSteps
<1>3. Exclusion'
  BY <1>b, <1>2 DEF Exclusion
<1>4. ASSUME ~freed, ~destroyed
      PROVE  CopyOk(c)'
  <2>a. CopyOk(c)
    BY <1>a, <1>4 DEF Copies
  <2>b. pc[c] \in ConInside => (size = 0 \/ (data = size /\ stamp = size))
    BY <1>a, <1>4, Names DEF Exclusion, Published, CamInside
  <2>1. CASE ConSize(c)
    BY <1>b, <1>c, <1>d, <2>1 DEF ConSize, ConGoto, CopyOk
  <2>2. CASE ConStamp(c)
    BY <1>b, <1>c, <1>d, <2>a, <2>2 DEF ConStamp, ConGoto, CopyOk
  <2>3. CASE ConData(c)
    BY <1>b, <1>c, <1>d, <1>4, <2>a, <2>b, <2>3
    DEF ConData, ConGoto, CopyOk, Consistent, ConInside
  <2>4. CASE ConUnlock(c)
    BY <1>b, <1>c, <2>a, <2>4 DEF ConUnlock, ConGoto, CopyOk, Consistent
  <2>5. CASE pc'[c] \notin {"stamp", "data", "unlock", "deliver"}
    BY <2>5 DEF CopyOk
  <2> QED
    BY <1>c, <2>1, <2>2, <2>3, <2>4, <2>5
    DEF Consumer, ConSteps, ConTop, ConLock, ConWait, ConSpurious, ConWake,
        ConNoMemory, ConDeliver, ConDie, ConGoto
<1>5. ASSUME ~freed, ~destroyed, NEW d \in Consumers, d # c
      PROVE  CopyOk(d)'
  BY <1>a, <1>b, <1>e, <1>5 DEF Copies, CopyOk, Consistent
<1>6. Copies'
  BY <1>b, <1>4, <1>5 DEF Copies
<1> QED BY <1>1, <1>3, <1>6

\* The handler touches neither the buffer nor the consumers; what it destroys
\* ends the guarantees.
LEMMA SigKeeps ==
    ASSUME IInv, Signal \/ Handler PROVE Exclusion' /\ Published' /\ Copies'
BY DEF IInv, Exclusion, Published, Copies, CopyOk, Consistent, Signal, Handler,
       StopInput, StopOutput, Destroy, Exit, sigOthers, bufVars, camVars, conVars

\* No picture, no owner: the initial state satisfies the inductive invariant.
LEMMA InitInv == Init => IInv
<1> SUFFICES ASSUME Init PROVE IInv
  OBVIOUS
<1>1. TypeBuf /\ TypeCam /\ TypeSig
  <2>0. 0 \in Frame
    BY Names
  <2>1. TypeBuf /\ TypeCam
    <3>1. TypeBuf
      BY <2>0 DEF Init, TypeBuf
    <3>2. TypeCam
      BY <2>0 DEF Init, TypeCam, CamPcs
    <3> QED BY <3>1, <3>2
  <2>2. outIdx \in 1 .. Len(Out) + 1
    BY Names DEF Init
  <2>3. TypeSig
    BY <2>2 DEF Init, TypeSig
  <2> QED BY <2>1, <2>3
<1>2. got \in [Consumers -> [size : Frame, stamp : Frame, data : Frame]]
  BY Names DEF Init, Nothing
<1>3. pc \in [Consumers -> {"top", "lock"}]
  BY DEF Init
<1>4. TypeCon
  BY <1>2, <1>3 DEF Init, TypeCon, ConPcs
<1>5. Exclusion /\ Copies
  BY <1>3 DEF Init, Exclusion, Copies, CopyOk, CamInside, ConInside
<1>6. Published
  BY DEF Init, Published
<1> QED BY <1>1, <1>4, <1>5, <1>6 DEF IInv, TypeOK

\* Every step of every thread preserves the inductive invariant.
LEMMA NextInv == IInv /\ [Next]_vars => IInv'
<1> SUFFICES ASSUME IInv, [Next]_vars PROVE IInv'
  OBVIOUS
<1>1. CASE CamThread
  BY <1>1, CamTypes, CamKeeps DEF IInv
<1>2. ASSUME NEW c \in Consumers, Consumer(c) PROVE IInv'
  BY <1>2, ConTypes, ConKeeps DEF IInv
<1>3. CASE Signal \/ Handler
  BY <1>3, SigTypes, SigKeeps DEF IInv
<1>4. CASE UNCHANGED vars
  BY <1>4
  DEF vars, bufVars, camVars, sigVars, conVars, IInv, TypeOK, TypeBuf, TypeCam,
      TypeCon, TypeSig, Exclusion, Published, Copies, CopyOk, Consistent
<1> QED BY <1>1, <1>2, <1>3, <1>4 DEF Next

\* The inductive invariant of the relay holds in every reachable state.
THEOREM Invariance == Spec => []IInv
BY InitInv, NextInv, PTL DEF Spec

\* Every reachable state of the relay is well typed.
THEOREM TypeCorrect == Spec => []TypeOK
<1>1. IInv => TypeOK
  BY DEF IInv
<1> QED BY <1>1, Invariance, PTL

\* No consumer of any number passes on a mixture of two pictures, whatever the
\* interleaving with the camera thread, as long as shutdown has neither freed the
\* buffer nor destroyed the mutex.
THEOREM FramesAreWhole == Spec => []WholeFrames
<1>1. IInv => WholeFrames
  BY DEF IInv, Copies, CopyOk, WholeFrames
<1> QED BY <1>1, Invariance, PTL

-----------------------------------------------------------------------------
\* Every step keeps the pictures in order, and so does what a consumer holds.
LEMMA OrderStep ==
    ASSUME TypeOK, Ordered, [Next]_vars
    PROVE  Ordered' /\ (freed \/ \A c \in Consumers : InOrder(c))
<1> USE DEF camOthers, conOthers, sigOthers, bufVars, camVars, sigVars, conVars
<1>a. /\ data \in Nat /\ tmp \in Nat /\ seq \in Nat /\ seq <= MaxFrames
      /\ tmp <= seq /\ data <= tmp /\ MaxFrames \in Nat
  BY Names DEF TypeOK, TypeBuf, TypeCam, Ordered
<1>b. got \in [Consumers -> [size : Frame, stamp : Frame, data : Frame]]
  BY DEF TypeOK, TypeCon
<1>c. \A c \in Consumers : got[c].data \in Nat
  BY <1>b, Names
<1>1. CASE CamThread
  <2>1. got' = got /\ (freed => freed')
    BY <1>1 DEF CamThread, CamSteps, CamTop, CamGrab, CamGrabSmall, CamGrabEmpty,
         CamGrabFails, CamLock, CamData, CamSize, CamStamp, CamBroadcast,
         CamUnlock, CamNap, CamCleanup
  <2>2. CASE CamGrabSmall \/ \E marker \in BOOLEAN : CamGrab(marker)
    BY <1>a, <1>c, <2>1, <2>2 DEF CamGrab, CamGrabSmall, Capture, Ordered, InOrder
  <2>3. CASE CamData
    BY <1>a, <1>c, <2>1, <2>3 DEF CamData, Ordered, InOrder
  <2>4. CASE UNCHANGED <<tmp, seq, data>>
    BY <1>a, <1>c, <2>1, <2>4 DEF Ordered, InOrder
  <2> QED
    BY <1>1, <2>2, <2>3, <2>4
    DEF CamThread, CamSteps, CamTop, CamGrabEmpty, CamGrabFails, CamLock, CamSize,
        CamStamp, CamBroadcast, CamUnlock, CamNap, CamCleanup
<1>2. ASSUME NEW c \in Consumers, Consumer(c)
      PROVE  Ordered' /\ (freed \/ \A d \in Consumers : InOrder(d))
  <2>1. UNCHANGED <<data, tmp, seq, freed>>
    BY <1>2 DEF Consumer, ConSteps, ConTop, ConLock, ConWait, ConSpurious, ConWake,
         ConSize, ConNoMemory, ConStamp, ConData, ConUnlock, ConDeliver, ConDie
  <2>2. \A d \in Consumers : d # c => got'[d] = got[d]
    BY <1>2, <1>b DEF Consumer, ConSteps, ConTop, ConLock, ConWait, ConSpurious,
         ConWake, ConSize, ConNoMemory, ConStamp, ConData, ConUnlock, ConDeliver,
         ConDie
  <2>3. ~freed => got'[c].data \in {got[c].data, data}
    <3>1. CASE ConData(c)
      BY <1>b, <3>1 DEF ConData
    <3>2. CASE ConSize(c) \/ ConStamp(c)
      BY <1>b, <3>2 DEF ConSize, ConStamp
    <3>3. CASE \E ok \in BOOLEAN : ConDeliver(c, ok)
      BY <1>b, <3>3 DEF ConDeliver
    <3>4. CASE got' = got
      BY <3>4
    <3> QED
      BY <1>2, <3>1, <3>2, <3>3, <3>4
      DEF Consumer, ConSteps, ConTop, ConLock, ConWait, ConSpurious, ConWake,
          ConNoMemory, ConUnlock, ConDie
  <2> QED BY <1>a, <1>c, <2>1, <2>2, <2>3 DEF Ordered, InOrder
<1>3. CASE Signal \/ Handler \/ UNCHANGED vars
  <2>1. UNCHANGED <<data, tmp, seq, got, freed>>
    BY <1>3 DEF vars, Signal, Handler, StopInput, StopOutput, Destroy, Exit
  <2> QED BY <1>a, <1>c, <2>1 DEF Ordered, InOrder
<1> QED BY <1>1, <1>2, <1>3 DEF Next

\* A stream never shows an older picture after a newer one, for any number of
\* consumers, until the buffer is freed.
THEOREM FramesStayInOrder == Spec => FramesInOrder
<1>1. Init => Ordered
  BY Names DEF Init, Ordered, Nothing
<1>2. TypeOK /\ Ordered /\ [Next]_vars => Ordered'
  BY OrderStep
<1>3. TypeOK /\ Ordered /\ [Next]_vars
        => [freed \/ \A c \in Consumers : InOrder(c)]_vars
  BY OrderStep
<1> QED BY <1>1, <1>2, <1>3, TypeCorrect, PTL DEF Spec, FramesInOrder

-----------------------------------------------------------------------------
\* A thread takes the mutex only when it is free, and gives it back before it goes on,
\* or is a worker that was cancelled in pthread_cond_wait.
Inside(t) ==
    \/ t = "cam" /\ camPc \in CamInside
    \/ t \in Consumers /\ (pc[t] \in ConInside \/ (t \in cancelled /\ pc[t] = "done"))

LockInv == ~destroyed => db = "free" \/ Inside(db)

LEMMA LockStep == ASSUME TypeOK, LockInv, [Next]_vars PROVE LockInv'
<1> USE DEF camOthers, conOthers, sigOthers, bufVars, camVars, sigVars, conVars
<1>a. /\ db \in Consumers \cup {"cam", "free"} /\ pc \in [Consumers -> ConPcs]
      /\ "cam" \notin Consumers
  BY Names DEF TypeOK, TypeBuf, TypeCon
<1>1. ASSUME CamThread PROVE LockInv'
  <2>1. UNCHANGED <<pc, destroyed, cancelled>>
    BY <1>1 DEF CamThread, CamSteps, CamTop, CamGrab, CamGrabSmall, CamGrabEmpty,
         CamGrabFails, CamLock, CamData, CamSize, CamStamp, CamBroadcast,
         CamUnlock, CamNap, CamCleanup
  <2>2. \/ camPc' \in CamInside /\ db' = "cam"
        \/ db' = "free"
        \/ db' = db /\ (camPc \in CamInside => camPc' \in CamInside)
    BY <1>1
    DEF CamThread, CamSteps, CamTop, CamGrab, CamGrabSmall, CamGrabEmpty,
        CamGrabFails, CamLock, CamData, CamSize, CamStamp, CamBroadcast,
        CamUnlock, CamNap, CamCleanup, CamGoto, Acquire, Release, CamInside
  <2> QED BY <1>a, <2>1, <2>2 DEF LockInv, Inside
<1>2. ASSUME NEW c \in Consumers, Consumer(c) PROVE LockInv'
  <2>1. UNCHANGED <<camPc, destroyed, cancelled>>
    BY <1>2 DEF Consumer, ConSteps, ConTop, ConLock, ConWait, ConSpurious, ConWake,
         ConSize, ConNoMemory, ConStamp, ConData, ConUnlock, ConDeliver, ConDie
  <2>2. \A d \in Consumers : d # c => pc'[d] = pc[d]
    BY <1>a, <1>2
    DEF Consumer, ConSteps, ConTop, ConLock, ConWait, ConSpurious, ConWake, ConSize,
        ConNoMemory, ConStamp, ConData, ConUnlock, ConDeliver, ConDie, ConGoto
  <2>3. \/ db' = c /\ (pc'[c] \in ConInside \/ (c \in cancelled /\ pc'[c] = "done"))
        \/ db' = "free"
        \/ db' = db /\ (pc[c] \in ConInside => pc'[c] \in ConInside)
                   /\ (pc[c] = "done" => pc'[c] = "done")
    <3>1. CASE ConTop(c) \/ ConSpurious(c) \/ ConSize(c) \/ ConStamp(c) \/ ConData(c)
      BY <1>a, <3>1 DEF ConTop, ConSpurious, ConSize, ConStamp, ConData, ConGoto, ConInside
    <3>2. CASE ConLock(c) \/ ConWake(c)
      BY <1>a, <3>2 DEF ConLock, ConWake, ConGoto, Acquire, ConInside
    <3>3. CASE ConWait(c) \/ ConNoMemory(c) \/ ConUnlock(c)
      BY <3>3 DEF ConWait, ConNoMemory, ConUnlock, Release
    <3>4. CASE ConDie(c)
      BY <1>a, <3>4 DEF ConDie, Acquire, ConInside
    <3>5. CASE \E ok \in BOOLEAN : ConDeliver(c, ok)
      BY <1>a, <3>5 DEF ConDeliver, ConGoto, ConInside
    <3> QED BY <1>2, <3>1, <3>2, <3>3, <3>4, <3>5 DEF Consumer, ConSteps
  <2> QED BY <1>a, <2>1, <2>2, <2>3 DEF LockInv, Inside
<1>3. ASSUME Signal \/ Handler PROVE LockInv'
  BY <1>3 DEF Signal, Handler, StopInput, StopOutput, Destroy, Exit, LockInv, Inside
<1>4. CASE UNCHANGED vars
  BY <1>4 DEF vars, LockInv, Inside
<1> QED BY <1>1, <1>2, <1>3, <1>4 DEF Next

\* No thread, of any number, ends or waits for something else with the mutex locked, so
\* that the next one that asks for it is held up by running threads only, until shutdown
\* destroys the mutex; but for a worker that shutdown cancelled in pthread_cond_wait.
THEOREM LockIsGivenBack == Spec => []LockGivenBack
<1>1. Init => LockInv
  BY DEF Init, LockInv
<1>2. LockInv => LockGivenBack
  BY Names DEF LockInv, Inside, LockGivenBack
<1> QED BY <1>1, <1>2, LockStep, TypeCorrect, PTL DEF Spec
=============================================================================
