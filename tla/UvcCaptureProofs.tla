-------------------------- MODULE UvcCaptureProofs --------------------------
(***************************************************************************)
(* Proofs about UvcCapture, for every number of buffers: its type          *)
(* invariant, that a change of resolution in the middle of uvcGrab loses   *)
(* no buffer, and that cam_thread never waits for a driver without one.    *)
(***************************************************************************)
EXTENDS UvcCapture, FiniteSetTheorems, TLAPS

\* The buffers that are somewhere: with the driver, with the camera thread, or lost to
\* an empty picture.
Known == Cardinality(queued) + Held + empties

\* No step of the camera thread makes Known smaller, as every buffer it takes from the
\* driver it holds, gives back or has lost; only STREAMOFF and close do.  After them the
\* loop of init_v4l2 has queued a buffer for every value of i it has passed, even if
\* the other thread had changed vd->buf.index, for VIDIOC_QBUF refuses a buffer twice.
CountInv ==
    alive /\ ~failed =>
        /\ cmdPc \in {"idle", "streamoff", "streamon", "on"} => Known >= NB
        /\ cmdPc \in {"queueIndex", "queue"} => Known >= i - 1

IInv == TypeOK /\ CountInv
-----------------------------------------------------------------------------
\* Known is a number, and what adding and removing a buffer does to it.
LEMMA Finite ==
    ASSUME NEW Q \in SUBSET Buffers
    PROVE  /\ Cardinality(Q) \in Nat /\ Cardinality(Buffers) = NB
           /\ \A b \in Buffers \ Q : Cardinality(Q \cup {b}) = Cardinality(Q) + 1
           /\ \A b \in Q : Cardinality(Q \ {b}) = Cardinality(Q) - 1
<1>1. IsFiniteSet(Buffers) /\ Cardinality(Buffers) = NB
  BY FS_Interval, CaptureAssumption DEF Buffers
<1>2. IsFiniteSet(Q)
  BY <1>1, FS_Subset
<1> QED BY <1>1, <1>2, FS_CardinalityType, FS_AddElement, FS_RemoveElement

\* What every step of the camera thread may do.
LEMMA CamTypes == ASSUME TypeOK, CamThread PROVE TypeOK'
<1> USE CaptureAssumption DEF TypeOK, CamGoto, Die, devVars, cmdVars, Buffers
<1>1. CASE CamTest
  BY <1>1 DEF CamTest
<1>2. CASE CamGrab
  BY <1>2 DEF CamGrab
<1>3. CASE CamStreamOn
  BY <1>3 DEF CamStreamOn
<1>4. CASE CamOn
  BY <1>4 DEF CamOn
<1>5. CASE CamClear
  BY <1>5 DEF CamClear
<1>6. ASSUME NEW b \in Buffers, CamDequeue(b) PROVE TypeOK'
  BY <1>6 DEF CamDequeue
<1>7. ASSUME NEW b \in Buffers, CamDequeueEmpty(b) PROVE TypeOK'
  BY <1>7 DEF CamDequeueEmpty
<1>8. CASE CamDequeueFails
  BY <1>8 DEF CamDequeueFails
<1>9. CASE CamCopy
  BY <1>9 DEF CamCopy
<1>10. CASE CamEnqueue
  BY <1>10 DEF CamEnqueue
<1>11. CASE CamPublish
  BY <1>11 DEF CamPublish
<1> QED
  BY <1>1, <1>2, <1>3, <1>4, <1>5, <1>6, <1>7, <1>8, <1>9, <1>10, <1>11 DEF CamThread

LEMMA CamKeeps == ASSUME IInv, alive, CamThread PROVE CountInv'
<1> USE DEF TypeOK, CamGoto, Die, devVars, cmdVars
<1>a. TypeOK /\ CountInv /\ TypeOK'
  BY CamTypes DEF IInv
<1>b. Cardinality(queued) \in Nat /\ Cardinality(queued') \in Nat /\ Known \in Nat
  BY <1>a, Finite, CaptureAssumption DEF Known, Held
<1>1. UNCHANGED <<cmdPc, i, failed>>
  BY DEF CamThread, CamTest, CamGrab, CamStreamOn, CamOn, CamClear, CamDequeue,
         CamDequeueEmpty, CamDequeueFails, CamCopy, CamEnqueue, CamPublish
<1>2. alive' => Known' >= Known
  <2>1. ASSUME CamTest \/ CamGrab \/ CamStreamOn \/ CamOn \/ CamClear \/ CamCopy \/ CamPublish
        PROVE  Known' = Known
    BY <2>1 DEF CamTest, CamGrab, CamStreamOn, CamOn, CamClear, CamCopy, CamPublish,
                Known, Held
  <2>2. ASSUME NEW b \in Buffers, CamDequeue(b) \/ CamDequeueEmpty(b)
        PROVE  Known' = Known
    <3>1. queued' = queued \ {b} /\ b \in queued
      BY <2>2 DEF CamDequeue, CamDequeueEmpty
    <3>0. /\ Held = 0
          /\ \/ Held' = 1 /\ empties' = empties
             \/ Held' = 0 /\ empties' = empties + 1
      BY <2>2 DEF CamDequeue, CamDequeueEmpty, Held
    <3>2. Cardinality(queued') = Cardinality(queued) - 1
      BY <1>a, <3>1, Finite
    <3> QED BY <1>a, <1>b, <3>0, <3>2, CaptureAssumption DEF Known
  <2>3. CASE CamDequeueFails
    BY <2>3 DEF CamDequeueFails
  <2>4. CASE CamEnqueue
    <3> SUFFICES ASSUME alive' PROVE Known' = Known
      BY <1>b
    <3>1. /\ queued' = queued \cup {index} /\ index \in Buffers \ queued
          /\ Held = 1 /\ Held' = 0 /\ empties' = empties
      BY <1>a, <2>4 DEF CamEnqueue, Held
    <3>2. Cardinality(queued') = Cardinality(queued) + 1
      BY <1>a, <3>1, Finite
    <3> QED BY <1>a, <1>b, <3>1, <3>2 DEF Known
  <2> QED BY <1>b, <2>1, <2>2, <2>3, <2>4 DEF CamThread
<1>c. Known' \in Nat
  BY <1>a, <1>b, CaptureAssumption DEF Known, Held
<1> QED BY <1>a, <1>b, <1>c, <1>1, <1>2, CaptureAssumption DEF CountInv, Buffers

-----------------------------------------------------------------------------
(* setResolution *)

LEMMA CmdTypes == ASSUME TypeOK, Resize \/ CmdThread PROVE TypeOK'
<1> USE CaptureAssumption DEF TypeOK, Proceed, Step, devVars, camVars, Buffers
<1>1. CASE Resize
  BY <1>1 DEF Resize
<1>a. BufOk \subseteq BOOLEAN
  BY DEF BufOk
<1>2. ASSUME NEW ok \in BOOLEAN, Disable(ok) \/ Open(ok) \/ Request(ok) \/ Map(ok) \/ Enable(ok)
      PROVE  TypeOK'
  <2>1. ok \in BOOLEAN
    OBVIOUS
  <2>2. CASE Disable(ok)
    BY <2>1, <2>2 DEF Disable
  <2>3. CASE Open(ok)
    BY <2>1, <2>3 DEF Open
  <2>4. CASE Request(ok)
    BY <2>1, <2>4 DEF Request
  <2>5. CASE Map(ok)
    BY <2>1, <2>5 DEF Map
  <2>6. CASE Enable(ok)
    BY <2>1, <2>6 DEF Enable
  <2> QED BY <1>2, <2>2, <2>3, <2>4, <2>5, <2>6
<1>3. CASE Unmap \/ Close
  BY <1>3 DEF Unmap, Close
<1>4. CASE Index("mapIndex", "map") \/ Index("queueIndex", "queue")
  <2>1. index' \in Buffers /\ cmdPc' \in {"map", "queue"}
    BY <1>4 DEF Index
  <2>2. UNCHANGED <<streamingState, streaming, open, allocated, mapped, queued, camPc, i, fresh>>
    BY <1>4 DEF Index
  <2>3. UNCHANGED <<failed, alive, empties, resizes>>
    BY <1>4 DEF Index
  <2> QED BY <2>1, <2>2, <2>3
<1>5. ASSUME NEW ok \in BOOLEAN, Queue(ok) PROVE TypeOK'
  BY <1>5 DEF Queue
<1>6. CASE On
  BY <1>6 DEF On
<1> QED BY <1>a, <1>1, <1>2, <1>3, <1>4, <1>5, <1>6 DEF CmdThread

LEMMA CmdKeeps == ASSUME IInv, Resize \/ CmdThread PROVE CountInv'
<1> USE DEF Proceed, Step, devVars, camVars
<1>a. TypeOK /\ CountInv /\ TypeOK' /\ NB \in Nat \ {0}
  BY CmdTypes, CaptureAssumption DEF IInv
<1>b. /\ Cardinality(queued) \in Nat /\ Cardinality(queued') \in Nat
      /\ Held \in Nat /\ Held' \in Nat /\ empties \in Nat /\ empties' \in Nat
  BY <1>a, Finite, CaptureAssumption DEF TypeOK, Held
<1>c. Known \in Nat /\ Known' \in Nat
  BY <1>b DEF Known
<1>1. CASE Resize
  BY <1>a, <1>1 DEF Resize, CountInv, Known, Held
<1>2. ASSUME NEW ok \in DeviceOk, Disable(ok) \/ Open(ok) \/ Request(ok)
      PROVE  CountInv'
  BY <1>2, CaptureAssumption DEF Disable, Open, Request, CountInv
<1>3. ASSUME NEW ok \in BufOk, Map(ok)
      PROVE  CountInv'
  <2>1. i' \in {1, i + 1} /\ (cmdPc' = "queueIndex" /\ ~failed' => i' = 1)
    BY <1>a, <1>3, CaptureAssumption DEF Map
  <2>2. cmdPc' \in {"mapIndex", "queueIndex"} \/ failed'
    BY <1>a, <1>3, CaptureAssumption DEF Map
  <2>3. cmdPc' = "queueIndex" /\ ~failed' => Known' >= i' - 1
    BY <1>c, <2>1
  <2> QED BY <2>2, <2>3 DEF CountInv
<1>4. ASSUME NEW ok \in DeviceOk, Enable(ok)
      PROVE  CountInv'
  BY <1>a, <1>4, CaptureAssumption DEF Enable, CountInv, Known, Held
<1>5. CASE Unmap \/ Close
  BY <1>5 DEF Unmap, Close, CountInv
<1>6. CASE Index("mapIndex", "map") \/ Index("queueIndex", "queue")
  BY <1>a, <1>6 DEF Index, CountInv, Known, Held
<1>7. ASSUME NEW ok \in BufOk, Queue(ok)
      PROVE  CountInv'
  <2> SUFFICES ASSUME alive', ~failed'
               PROVE  /\ cmdPc' \in {"idle", "streamoff", "streamon", "on"} => Known' >= NB
                      /\ cmdPc' \in {"queueIndex", "queue"} => Known' >= i' - 1
    BY DEF CountInv
  <2>1. /\ cmdPc = "queue" /\ alive /\ ~failed /\ index \in Buffers \ queued
        /\ queued' = queued \cup {index} /\ UNCHANGED <<camPc, empties>>
        /\ cmdPc' = IF i < NB THEN "queueIndex" ELSE "streamon"
        /\ i' = IF i < NB THEN i + 1 ELSE 1
    BY <1>a, <1>7 DEF Queue, TypeOK
  <2>2. Cardinality(queued') = Cardinality(queued) + 1
    BY <1>a, <2>1, Finite DEF TypeOK
  <2>3. Known' = Known + 1
    BY <1>b, <2>1, <2>2 DEF Known, Held
  <2>4. Known >= i - 1
    BY <1>a, <2>1 DEF CountInv
  <2>5. i \in 1 .. NB
    BY <1>a DEF TypeOK, Buffers
  <2> QED BY <1>a, <1>c, <2>1, <2>3, <2>4, <2>5
<1>8. CASE On
  BY <1>a, <1>8 DEF On, CountInv, Known, Held
<1> QED BY <1>1, <1>2, <1>3, <1>4, <1>5, <1>6, <1>7, <1>8 DEF CmdThread

-----------------------------------------------------------------------------
LEMMA InitInv == Init => IInv
<1> SUFFICES ASSUME Init PROVE IInv
  OBVIOUS
<1>1. TypeOK
  <2>1. 1 \in Buffers /\ NB \in Buffers /\ 0 \in 0 .. MaxEmpties /\ 0 \in 0 .. MaxResizes
    BY CaptureAssumption DEF Buffers
  <2> QED BY <2>1 DEF Init, TypeOK
<1>2. Cardinality(queued) = NB
  <2>1. Buffers \in SUBSET Buffers
    OBVIOUS
  <2> QED BY <2>1, Finite DEF Init
<1>3. Known = NB
  BY <1>2, CaptureAssumption DEF Init, Known, Held
<1> QED BY <1>1, <1>3, CaptureAssumption DEF Init, IInv, CountInv

LEMMA NextInv == IInv /\ [Next]_vars => IInv'
<1> SUFFICES ASSUME IInv, [Next]_vars PROVE IInv'
  OBVIOUS
<1>1. CASE UNCHANGED vars
  BY <1>1 DEF vars, devVars, cmdVars, IInv, TypeOK, CountInv, Known, Held
<1>2. CASE Next
  <2>1. alive /\ TypeOK
    BY <1>2 DEF Next, IInv
  <2>2. CASE CamThread
    BY <2>1, <2>2, CamTypes, CamKeeps DEF IInv
  <2>3. CASE Resize \/ CmdThread
    BY <2>1, <2>3, CmdTypes, CmdKeeps DEF IInv
  <2> QED BY <1>2, <2>2, <2>3 DEF Next
<1> QED BY <1>1, <1>2

\* The inductive invariant of the camera side holds in every reachable state.
THEOREM Invariance == Spec => []IInv
BY InitInv, NextInv, PTL DEF Spec

\* Every reachable state of the camera side is well typed: vd->buf.index names a
\* buffer, whichever thread wrote it last.
THEOREM TypeCorrect == Spec => []TypeOK
BY Invariance, PTL DEF IInv

LEMMA InvAccounted == IInv => BuffersAccounted
BY DEF IInv, CountInv, Known, BuffersAccounted

\* No change of resolution loses a buffer, wherever in uvcGrab it meets the camera
\* thread: the driver and the thread have all of them but for one per empty picture.
THEOREM BuffersStayAccounted == Spec => []BuffersAccounted
BY Invariance, InvAccounted, PTL

\* The safety half of KeepsCapturing: outside a change of resolution that works,
\* VIDIOC_DQBUF is not called on a driver that has no buffer left to fill, as long as
\* there were fewer empty pictures than buffers.
NeverStarved ==
    alive /\ ~failed /\ cmdPc = "idle" /\ camPc = "dequeue" /\ empties < NB => queued # {}

LEMMA InvNeverStarved == IInv => NeverStarved
<1> SUFFICES ASSUME IInv, alive, ~failed, cmdPc = "idle", camPc = "dequeue", empties < NB,
                    queued = {}
             PROVE  FALSE
  BY DEF NeverStarved
<1>1. Known = empties
  BY FS_EmptySet DEF Known, Held, IInv, TypeOK
<1> QED BY <1>1, CaptureAssumption DEF IInv, CountInv, TypeOK

\* cam_thread is never left waiting by the buffers it did not give back.
THEOREM CameraNeverStarved == Spec => []NeverStarved
BY Invariance, InvNeverStarved, PTL
=============================================================================
