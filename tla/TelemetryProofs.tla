--------------------------- MODULE TelemetryProofs ---------------------------
(***************************************************************************)
(* Proofs about SerialSync and Telemetry, for frames of any length with    *)
(* bytes 255 anywhere and any number of faults and requests: the parser    *)
(* finds its place again in time and keeps it while the line is clean, the *)
(* copy of the frame does not disturb the parser, and no operator is sent  *)
(* bytes of the controller older than the last frame.                      *)
(***************************************************************************)
EXTENDS Telemetry, FiniteSetTheorems, TLAPS

\* The payload bytes 255 before position p of a frame.
Below(M, p) == {k \in M : k < p}

\* The calls that have failed were spent on bytes 255 that the parser has left behind
\* (all but one call, which may have begun before the fault):
\* looking for a 255, on those before pos, or on all if the header comes next;
\* reading from a byte 255 at m, on those before m, and the read will end at m again,
\* as it takes PayloadLen bytes; and then the second loop drops that byte at once.
SyncInv ==
    fails > 0 =>
        /\ pc = "sync" => fails <= 1 + Cardinality(IF pos = 0 THEN marks ELSE Below(marks, pos))
        /\ pc = "read" =>
              \/ intact /\ fails <= 1 + Cardinality(marks)
              \/ \E m \in marks :
                    /\ pos = m + 1 + got \/ pos = m + got - PayloadLen
                    /\ fails <= 1 + Cardinality(Below(marks, m))
        /\ pc = "resync" =>
              fails = 1 \/ (pos \in marks /\ fails <= 1 + Cardinality(Below(marks, pos + 1)))

SerialInv == TypeOK /\ SyncInv
-----------------------------------------------------------------------------
(* Positions and counts *)

\* The two counters of the parser run through 0 .. N - 1.
LEMMA Wraps ==
    ASSUME NEW N \in Nat \ {0}, NEW x \in 0 .. N - 1
    PROVE  (x + 1) % N = IF x + 1 = N THEN 0 ELSE x + 1
<1>1. N % N = 0
  OBVIOUS
<1>2. ASSUME NEW y \in 0 .. N - 1 PROVE y % N = y
  OBVIOUS
<1> QED BY <1>1, <1>2

\* How many bytes 255 there are before a position.
LEMMA BelowCount ==
    ASSUME NEW M \in Patterns, NEW p \in Int
    PROVE  /\ Cardinality(M) \in Nat /\ Cardinality(Below(M, p)) \in Nat
           /\ Cardinality(Below(M, p)) <= Cardinality(M)
           /\ p \notin M => Below(M, p + 1) = Below(M, p)
           /\ p \in M => Cardinality(Below(M, p + 1)) = Cardinality(Below(M, p)) + 1
<1>1. M \subseteq 1 .. PayloadLen /\ PayloadLen \in Nat
  BY SerialAssumption
<1>2. IsFiniteSet(M)
  <2>1. IsFiniteSet(1 .. PayloadLen)
    BY <1>1, FS_Interval
  <2> QED BY <1>1, <2>1, FS_Subset
<1>3. IsFiniteSet(Below(M, p)) /\ Cardinality(Below(M, p)) <= Cardinality(M)
  <2>1. Below(M, p) \in SUBSET M
    BY DEF Below
  <2> QED BY <1>2, <2>1, FS_Subset
<1>4. p \notin M => Below(M, p + 1) = Below(M, p)
  <2>1. ASSUME NEW k \in M, p \notin M PROVE k < p + 1 <=> k < p
    BY <1>1, <2>1
  <2> QED BY <2>1 DEF Below
<1>5. p \in M => Below(M, p + 1) = Below(M, p) \cup {p} /\ p \notin Below(M, p)
  <2>1. ASSUME NEW k \in M PROVE k < p + 1 <=> k < p \/ k = p
    BY <1>1
  <2>2. ~(p < p)
    OBVIOUS
  <2> QED BY <2>1, <2>2 DEF Below
<1>6. p \in M => Cardinality(Below(M, p + 1)) = Cardinality(Below(M, p)) + 1
  BY <1>3, <1>5, FS_AddElement
<1> QED BY <1>2, <1>3, <1>4, <1>6, FS_CardinalityType

\* What the assumptions say of a state.
LEMMA Ranges ==
    ASSUME TypeOK
    PROVE  /\ PayloadLen \in Nat \ {0} /\ MaxFaults \in Nat
           /\ pos \in 0 .. PayloadLen /\ got \in 0 .. PayloadLen - 1
           /\ marks \subseteq 1 .. PayloadLen
           /\ fails \in Nat /\ FailsBound \in Nat
           /\ (pos + 1) % (PayloadLen + 1) = IF pos = PayloadLen THEN 0 ELSE pos + 1
           /\ (got + 1) % PayloadLen = IF got = PayloadLen - 1 THEN 0 ELSE got + 1
<1>1. PayloadLen \in Nat \ {0} /\ MaxFaults \in Nat /\ marks \subseteq 1 .. PayloadLen
  BY SerialAssumption DEF TypeOK
<1>2. pos \in 0 .. PayloadLen /\ got \in 0 .. PayloadLen - 1
  BY DEF TypeOK
<1>3. (pos + 1) % (PayloadLen + 1) = IF pos = PayloadLen THEN 0 ELSE pos + 1
  <2>1. PayloadLen + 1 \in Nat \ {0} /\ pos \in 0 .. (PayloadLen + 1) - 1
    BY <1>1, <1>2
  <2>2. (pos + 1) % (PayloadLen + 1) = IF pos + 1 = PayloadLen + 1 THEN 0 ELSE pos + 1
    BY <2>1, Wraps
  <2> QED BY <1>1, <1>2, <2>2
<1>4. (got + 1) % PayloadLen = IF got = PayloadLen - 1 THEN 0 ELSE got + 1
  <2>1. (got + 1) % PayloadLen = IF got + 1 = PayloadLen THEN 0 ELSE got + 1
    BY <1>1, <1>2, Wraps
  <2> QED BY <1>1, <1>2, <2>1
<1>5. FailsBound \in Nat
  <2>1. marks \in Patterns /\ 0 \in Int
    BY DEF TypeOK
  <2> QED BY <2>1, BelowCount DEF FailsBound
<1> QED BY <1>1, <1>2, <1>3, <1>4, <1>5 DEF TypeOK

-----------------------------------------------------------------------------
(* The parser *)

\* What the three loops do to everything but the counts.
LEMMA LoopTypes ==
    ASSUME TypeOK, NEW b \in BOOLEAN, NEW c \in BOOLEAN, Sync(b) \/ Read(c) \/ Resync(b)
    PROVE  /\ marks' = marks /\ pos' \in 0 .. PayloadLen
           /\ pc' \in {"sync", "read", "resync"} /\ got' \in 0 .. PayloadLen - 1
           /\ intact' \in BOOLEAN /\ synced' \in BOOLEAN
<1> USE Ranges DEF Advance
<1>1. CASE Sync(b)
  BY <1>1 DEF Sync, TypeOK
<1>2. CASE Read(c)
  BY <1>2 DEF Read, TypeOK
<1>3. CASE Resync(b)
  BY <1>3 DEF Resync, TypeOK
<1> QED BY <1>1, <1>2, <1>3

LEMMA SerialTypes == ASSUME TypeOK, Next PROVE TypeOK'
<1>1. CASE ReadByte
  <2>1. /\ marks' = marks /\ pos' \in 0 .. PayloadLen
        /\ pc' \in {"sync", "read", "resync"} /\ got' \in 0 .. PayloadLen - 1
        /\ intact' \in BOOLEAN /\ synced' \in BOOLEAN
    BY <1>1, LoopTypes DEF ReadByte, IsMark
  <2>2. fails' \in 0 .. FailsBound
    BY <1>1, Ranges DEF ReadByte, TypeOK
  <2>3. FailsBound' = FailsBound
    BY <2>1 DEF FailsBound
  <2> QED BY <1>1, <2>1, <2>2, <2>3 DEF ReadByte, TypeOK
<1>2. CASE Garbled
  <2>1. /\ marks' = marks /\ pos' \in 0 .. PayloadLen
        /\ pc' \in {"sync", "read", "resync"} /\ got' \in 0 .. PayloadLen - 1
        /\ intact' \in BOOLEAN /\ synced' \in BOOLEAN
    BY <1>2, LoopTypes DEF Garbled, IsMark
  <2>2. FailsBound' = FailsBound
    BY <2>1 DEF FailsBound
  <2> QED BY <1>2, <2>1, <2>2, Ranges DEF Garbled, TypeOK
<1>3. CASE Lost
  <2>1. FailsBound' = FailsBound
    BY <1>3 DEF Lost, FailsBound
  <2>2. /\ pos' \in 0 .. PayloadLen /\ faults' \in 0 .. MaxFaults
        /\ fails' = 0 /\ 0 \in 0 .. FailsBound
    BY <1>3, Ranges DEF Lost, Advance, TypeOK
  <2> QED BY <1>3, <2>1, <2>2 DEF Lost, TypeOK
<1> QED BY <1>1, <1>2, <1>3 DEF Next

\* A byte read as it was sent.
LEMMA ReadByteKeeps == ASSUME SerialInv, ReadByte, fails' > 0 PROVE SyncInv'
<1>a. TypeOK /\ SyncInv /\ TypeOK'
  BY SerialTypes DEF SerialInv, Next
<1>b. marks' = marks /\ marks \in Patterns
  BY <1>a DEF ReadByte, Sync, Read, Resync, TypeOK
<1>c. pos \in Int /\ pos + 1 \in Int /\ fails' \in Nat /\ got' \in Int
  <2>1. got' \in Int
    BY <1>a, Ranges DEF TypeOK
  <2>2. fails' \in Nat
    BY <1>a, Ranges DEF ReadByte
  <2> QED BY <1>a, <2>1, <2>2, Ranges
<1>d. /\ Cardinality(marks) \in Nat /\ Cardinality(Below(marks, pos)) \in Nat
      /\ Cardinality(Below(marks, pos)) <= Cardinality(marks)
      /\ pos \notin marks => Below(marks, pos + 1) = Below(marks, pos)
  BY <1>b, <1>c, BelowCount
<1> USE Ranges
<1>1. CASE Sync(IsMark)
  <2>1. /\ pc = "sync" /\ fails' = fails /\ got' = 0
        /\ pos' = IF pos = PayloadLen THEN 0 ELSE pos + 1
        /\ pc' = IF IsMark THEN "read" ELSE "sync"
        /\ intact' = (IsMark /\ pos = 0)
    BY <1>a, <1>1 DEF ReadByte, Sync, Advance
  <2>2. fails <= 1 + Cardinality(IF pos = 0 THEN marks ELSE Below(marks, pos))
    BY <1>a, <2>1 DEF SyncInv
  <2>3. CASE pos = 0
    BY <1>b, <2>1, <2>2, <2>3 DEF SyncInv, IsMark
  <2>4. CASE pos \in marks
    <3>1. pos # 0 /\ pc' = "read"
      BY <1>a, <2>1, <2>4 DEF IsMark
    <3>2. pos' = pos + 1 + got' \/ pos' = pos + got' - PayloadLen
      BY <1>a, <2>1
    <3>3. fails' <= 1 + Cardinality(Below(marks', pos))
      BY <1>b, <2>1, <2>2, <3>1
    <3> QED BY <1>b, <2>4, <3>1, <3>2, <3>3 DEF SyncInv
  <2>5. CASE pos # 0 /\ pos \notin marks
    <3>1. pc' = "sync"
      BY <2>1, <2>5 DEF IsMark
    <3>2. fails' <= 1 + Cardinality(IF pos' = 0 THEN marks ELSE Below(marks, pos'))
      BY <1>a, <1>d, <2>1, <2>2, <2>5
    <3> QED BY <1>b, <3>1, <3>2 DEF SyncInv
  <2> QED BY <2>3, <2>4, <2>5
<1>2. CASE Read(TRUE)
  <2>1. /\ pc = "read" /\ intact' = intact
        /\ pos' = IF pos = PayloadLen THEN 0 ELSE pos + 1
        /\ got' = IF got = PayloadLen - 1 THEN 0 ELSE got + 1
    BY <1>a, <1>2 DEF Read, Advance, TypeOK
  <2>2. CASE got' # 0
    <3>1. pc' = "read" /\ fails' = fails
      BY <1>2, <2>1, <2>2 DEF ReadByte, Read
    <3>2. CASE intact /\ fails <= 1 + Cardinality(marks)
      BY <1>b, <2>1, <3>1, <3>2 DEF SyncInv
    <3>3. ASSUME NEW m \in marks, pos = m + 1 + got \/ pos = m + got - PayloadLen,
                 fails <= 1 + Cardinality(Below(marks, m))
          PROVE  SyncInv'
      <4>1. m \in 1 .. PayloadLen
        BY <1>a
      <4>2. pos' = m + 1 + got' \/ pos' = m + got' - PayloadLen
        BY <1>a, <2>1, <2>2, <3>3, <4>1
      <4> QED BY <1>b, <3>1, <3>3, <4>2 DEF SyncInv
    <3> QED BY <1>a, <2>1, <3>1, <3>2, <3>3 DEF SyncInv
  <2>3. CASE got' = 0
    <3>1. ~intact /\ pc' = "resync" /\ fails' = IF fails < FailsBound THEN fails + 1 ELSE fails
      BY <1>2, <2>1, <2>3 DEF ReadByte, Read
    <3>2. CASE fails = 0
      BY <1>a, <3>1, <3>2 DEF SyncInv
    <3>3. CASE fails > 0
      <4>1. PICK m \in marks : /\ pos = m + 1 + got \/ pos = m + got - PayloadLen
                               /\ fails <= 1 + Cardinality(Below(marks, m))
        BY <1>a, <2>1, <3>1, <3>3 DEF SyncInv
      <4>2. m \in 1 .. PayloadLen
        BY <1>a
      <4>3. pos' = m
        BY <1>a, <2>1, <2>3, <4>1, <4>2
      <4>4. /\ Cardinality(Below(marks, m + 1)) = Cardinality(Below(marks, m)) + 1
            /\ Cardinality(Below(marks, m)) \in Nat
        BY <1>b, <4>2, BelowCount
      <4>5. fails' <= 1 + Cardinality(Below(marks, m + 1))
        BY <1>a, <3>1, <4>1, <4>4
      <4> QED BY <1>b, <3>1, <4>3, <4>5 DEF SyncInv
    <3> QED BY <1>a, <3>2, <3>3
  <2> QED BY <2>2, <2>3
<1>3. CASE Resync(IsMark)
  <2>1. /\ pc = "resync" /\ fails' = fails
        /\ pos' = IF pos = PayloadLen THEN 0 ELSE pos + 1
        /\ pc' = IF IsMark THEN "sync" ELSE "resync"
    BY <1>a, <1>3 DEF ReadByte, Resync, Advance
  <2>2. CASE fails = 1
    <3>1. pos' \in Int
      BY <1>a, <2>1
    <3>2. Cardinality(IF pos' = 0 THEN marks ELSE Below(marks, pos')) \in Nat
      BY <1>b, <3>1, BelowCount
    <3> QED BY <1>b, <2>1, <2>2, <3>2 DEF SyncInv
  <2>3. CASE pos \in marks /\ fails <= 1 + Cardinality(Below(marks, pos + 1))
    <3>1. pc' = "sync"
      BY <2>1, <2>3 DEF IsMark
    <3>2. Cardinality(Below(marks, pos + 1)) <= Cardinality(marks)
          /\ Cardinality(Below(marks, pos + 1)) \in Nat
      BY <1>b, <1>c, BelowCount
    <3>3. fails' <= 1 + Cardinality(IF pos' = 0 THEN marks ELSE Below(marks, pos'))
      BY <1>a, <1>d, <2>1, <2>3, <3>2
    <3> QED BY <1>b, <3>1, <3>3 DEF SyncInv
  <2> QED BY <1>a, <2>1, <2>2, <2>3 DEF SyncInv
<1> QED BY <1>1, <1>2, <1>3 DEF ReadByte

LEMMA SerialInitInv == Init => SerialInv
<1> SUFFICES ASSUME Init PROVE SerialInv
  OBVIOUS
<1>1. marks \in Patterns /\ Cardinality(marks) \in Nat
  <2>1. marks \in Patterns /\ 0 \in Int
    BY DEF Init
  <2> QED BY <2>1, BelowCount
<1>2. FailsBound \in Nat /\ 0 \in 0 .. FailsBound
  BY <1>1 DEF FailsBound
<1>3. 0 \in 0 .. PayloadLen - 1 /\ 0 \in 0 .. MaxFaults
  BY SerialAssumption
<1>4. TypeOK
  BY <1>1, <1>2, <1>3 DEF Init, TypeOK
<1>5. SyncInv
  <2>1. ~(fails > 0)
    BY DEF Init
  <2> QED BY <2>1 DEF SyncInv
<1> QED BY <1>4, <1>5 DEF SerialInv

LEMMA SerialNextInv == SerialInv /\ [Next]_vars => SerialInv'
<1> SUFFICES ASSUME SerialInv, [Next]_vars PROVE SerialInv'
  OBVIOUS
<1>1. CASE UNCHANGED vars
  BY <1>1 DEF vars, SerialInv, TypeOK, SyncInv, FailsBound
<1>2. CASE Next
  <2>1. TypeOK'
    BY <1>2, SerialTypes DEF SerialInv
  <2>2. fails' > 0 => SyncInv'
    <3>1. (Garbled \/ Lost) => fails' = 0
      BY DEF Garbled, Lost
    <3>2. fails' > 0 => ReadByte
      BY <1>2, <3>1 DEF Next
    <3> QED BY <3>2, ReadByteKeeps
  <2>3. ~(fails' > 0) => SyncInv'
    BY DEF SyncInv
  <2> QED BY <2>1, <2>2, <2>3 DEF SerialInv
<1> QED BY <1>1, <1>2

LEMMA InvRecovers == SerialInv => RecoversInTime
<1> SUFFICES ASSUME SerialInv PROVE RecoversInTime
  OBVIOUS
<1>1. marks \in Patterns /\ \A p \in Int :
          /\ Cardinality(marks) \in Nat /\ Cardinality(Below(marks, p)) \in Nat
          /\ Cardinality(Below(marks, p)) <= Cardinality(marks)
  BY BelowCount DEF SerialInv, TypeOK
<1>2. fails \in Nat /\ pos \in Int /\ pos + 1 \in Int /\ marks \subseteq Int
      /\ pc \in {"sync", "read", "resync"}
  <2>1. marks \subseteq 1 .. PayloadLen
    BY <1>1, SerialAssumption
  <2> QED BY <2>1, Ranges DEF SerialInv, TypeOK
<1>3. CASE fails = 0
  BY <1>1, <1>3 DEF RecoversInTime
<1>4. CASE fails > 0
  <2>1. CASE pc = "sync"
    BY <1>1, <1>2, <1>4, <2>1 DEF RecoversInTime, SerialInv, SyncInv
  <2>2. CASE pc = "read"
    BY <1>1, <1>2, <1>4, <2>2 DEF RecoversInTime, SerialInv, SyncInv
  <2>3. CASE pc = "resync"
    BY <1>1, <1>2, <1>4, <2>3 DEF RecoversInTime, SerialInv, SyncInv
  <2> QED BY <1>2, <2>1, <2>2, <2>3
<1> QED BY <1>2, <1>3, <1>4

\* GetRS232Motor33f by itself finds the frames again after as many failed calls as the
\* payload has bytes 255 and one more, wherever they are and however long the frame is.
THEOREM ParserRecovers == Spec => []RecoversInTime
<1>1. Spec => []SerialInv
  BY SerialInitInv, SerialNextInv, PTL DEF Spec
<1> QED BY <1>1, InvRecovers, PTL

-----------------------------------------------------------------------------
(* Staying in step *)

\* While sbuf is intact it lines up with the frame: it was begun at the header.
AlignInv == pc = "read" /\ intact => pos = got + 1

\* What KeepsStep says of one step.
StepKept ==
    faults' = faults =>
        /\ pc = "read" /\ got' = 0 /\ synced' => InStep'
        /\ InStep => InStep'

\* A byte read as it was sent keeps sbuf aligned with the frame, and the parser in step.
LEMMA ReadByteAligned == ASSUME TypeOK, AlignInv, ReadByte PROVE AlignInv' /\ StepKept
<1> USE Ranges
<1>a. /\ pos' = IF pos = PayloadLen THEN 0 ELSE pos + 1
      /\ pos \in 0 .. PayloadLen /\ got \in 0 .. PayloadLen - 1 /\ PayloadLen \in Nat \ {0}
  BY DEF ReadByte, Sync, Read, Resync, Advance
<1>1. CASE Sync(IsMark)
  <2>1. /\ pc = "sync" /\ got' = 0 /\ pc' = IF IsMark THEN "read" ELSE "sync"
        /\ intact' = (IsMark /\ pos = 0)
    BY <1>1 DEF Sync
  <2>2. pos = 0 => pc' = "read" /\ intact' /\ pos' = got' + 1
    BY <1>a, <2>1 DEF IsMark
  <2>3. intact' => pos = 0
    BY <2>1
  <2> QED BY <2>1, <2>2, <2>3 DEF AlignInv, StepKept, InStep
<1>2. CASE Read(TRUE)
  <2>1. /\ pc = "read" /\ intact' = intact
        /\ got' = IF got = PayloadLen - 1 THEN 0 ELSE got + 1
    BY <1>2 DEF Read, TypeOK
  <2>2. CASE got' # 0
    <3>1. pc' = "read"
      BY <1>2, <2>2 DEF Read
    <3>2. intact => pos' = got' + 1
      BY <1>a, <2>1, <2>2 DEF AlignInv
    <3> QED BY <2>1, <2>2, <3>1, <3>2 DEF AlignInv, StepKept, InStep
  <2>3. CASE got' = 0
    <3>1. pc' = (IF intact THEN "sync" ELSE "resync") /\ synced' = intact
      BY <1>2, <2>1, <2>3 DEF Read
    <3>2. intact => pos' = 0
      BY <1>a, <2>1, <2>3 DEF AlignInv
    <3> QED BY <2>1, <3>1, <3>2 DEF AlignInv, StepKept, InStep
  <2> QED BY <2>2, <2>3
<1>3. CASE Resync(IsMark)
  BY <1>3 DEF Resync, AlignInv, StepKept, InStep
<1> QED BY <1>1, <1>2, <1>3 DEF ReadByte

\* A fault never leaves intact what is being read into sbuf.
LEMMA AlignStep == ASSUME TypeOK, AlignInv, [Next]_vars PROVE AlignInv' /\ [StepKept]_vars
<1>1. CASE UNCHANGED vars
  BY <1>1 DEF vars, AlignInv
<1>2. CASE ReadByte
  BY <1>2, ReadByteAligned
<1>3. CASE Garbled \/ Lost
  <2>1. faults' # faults
    <3>1. faults \in Int
      BY Ranges DEF TypeOK
    <3>2. faults' = faults + 1
      BY <1>3 DEF Garbled, Lost
    <3> QED BY <3>1, <3>2
  <2>2. pc' = "read" => ~intact'
    BY <1>3 DEF Garbled, Lost, Sync, Read, Resync, IsMark
  <2> QED BY <2>1, <2>2 DEF AlignInv, StepKept
<1> QED BY <1>1, <1>2, <1>3 DEF Next

\* Once GetRS232Motor33f has accepted a frame it misses none until the next fault of the
\* line, wherever in the payload there are bytes 255 and however long the frame is.
THEOREM ParserKeepsStep == Spec => KeepsStep
<1>1. Spec => []TypeOK
  <2>1. SerialInv => TypeOK
    BY DEF SerialInv
  <2> QED BY <2>1, SerialInitInv, SerialNextInv, PTL DEF Spec
<1>2. Init => AlignInv
  BY DEF Init, AlignInv
<1>3. TypeOK /\ AlignInv /\ [Next]_vars => AlignInv' /\ [StepKept]_vars
  BY AlignStep
<1>4. Spec => [][StepKept]_vars
  BY <1>1, <1>2, <1>3, PTL DEF Spec
<1> QED BY <1>4 DEF KeepsStep, StepKept

-----------------------------------------------------------------------------
(* The buffer and Thread_TCP_Trooper_Out *)

\* The threads that use the telemetry buffer leave the parser alone.
LEMMA ParserStep == TelemetryNext => [Next]_vars
BY DEF TelemetryNext, SerialThread, Line, OutThread, Parse, CopyField, OutMemset, OutRecvfrom,
       OutCrc, OutStore, OutSendto, outOthers, Next

\* The composition implements SerialSync: what was proved of the parser alone holds
\* beside memcpy and the requests of operators.
THEOREM TelemetryImplementsSerialSync == TelemetrySpec => Spec
<1>1. TelemetryInit => Init
  BY DEF TelemetryInit
<1>2. [TelemetryNext]_telemetryVars => [Next]_vars
  BY ParserStep DEF telemetryVars
<1> QED BY <1>1, <1>2, PTL DEF TelemetrySpec, Spec

\* Bytes of the frame before the last are only where memcpy has not been yet, and the
\* server's crc only where memset has not.
AgeInv ==
    \A f \in Fields :
        /\ rawOut[f] # "stale"
        /\ rawOut[f] = "old" => f \in copyTodo
        /\ rawOut[f] = "short" => outPc \in {"store", "sendto"} \/ f \in outTodo

\* Whenever Thread_TCP_Trooper_Out waits or computes, it has nothing left to write.
TodoInv == outTodo # {} <=> outPc \in {"memset", "store"}

OutTypes ==
    /\ rawOut \in [Fields -> Ages]
    /\ copyTodo \subseteq Fields /\ outTodo \subseteq Fields
    /\ outPc \in {"memset", "recvfrom", "crc", "store", "sendto"}
    /\ asks \in 0 .. MaxAsks

LEMMA BufferInit == TelemetryInit => OutTypes /\ AgeInv /\ TodoInv
BY TelemetryAssumption DEF TelemetryInit, OutTypes, AgeInv, TodoInv, Fields, Ages

LEMMA BufferStep ==
    ASSUME OutTypes, AgeInv, TodoInv, [TelemetryNext]_telemetryVars
    PROVE  OutTypes' /\ AgeInv' /\ TodoInv'
<1> USE TelemetryAssumption DEF outVars, outOthers
<1>1. ASSUME copyTodo = {}, UNCHANGED outVars,
             \/ copyTodo' = Fields /\ rawOut' = [f \in Fields |-> Older(rawOut[f])]
             \/ UNCHANGED <<copyTodo, rawOut>>
      PROVE  OutTypes' /\ AgeInv' /\ TodoInv'
  <2>1. CASE UNCHANGED <<copyTodo, rawOut>>
    BY <1>1, <2>1 DEF OutTypes, AgeInv, TodoInv
  <2>2. CASE copyTodo' = Fields /\ rawOut' = [f \in Fields |-> Older(rawOut[f])]
    <3>1. ASSUME NEW f \in Fields
          PROVE  /\ Older(rawOut[f]) \in Ages \ {"stale"}
                 /\ Older(rawOut[f]) = "short" => rawOut[f] = "short"
      <4>1. rawOut[f] \in {"zero", "new", "short"}
        BY <1>1 DEF OutTypes, AgeInv, Ages
      <4> QED BY <4>1 DEF Older, Ages
    <3> QED BY <1>1, <2>2, <3>1 DEF OutTypes, AgeInv, TodoInv
  <2> QED BY <1>1, <2>1, <2>2
<1>2. CASE Parse(ReadByte) \/ Parse(Garbled) \/ Parse(Lost)
  BY <1>1, <1>2 DEF Parse
<1>3. ASSUME NEW f \in Fields, CopyField(f)
      PROVE  OutTypes' /\ AgeInv' /\ TodoInv'
  BY <1>3 DEF CopyField, OutTypes, AgeInv, TodoInv, Ages
<1>4. ASSUME NEW f \in Fields, OutMemset(f)
      PROVE  OutTypes' /\ AgeInv' /\ TodoInv'
  BY <1>4 DEF OutMemset, OutGoto, OutTypes, AgeInv, TodoInv, Ages
<1>5. ASSUME NEW isData \in BOOLEAN, OutRecvfrom(isData)
      PROVE  OutTypes' /\ AgeInv' /\ TodoInv'
  BY <1>5 DEF OutRecvfrom, OutGoto, OutTypes, AgeInv, TodoInv, Fields
<1>6. CASE OutCrc \/ \E f \in Crc : OutStore(f)
  <2>1. CASE OutCrc
    BY <2>1 DEF OutCrc, OutGoto, OutTypes, AgeInv, TodoInv, Crc, Fields
  <2>2. ASSUME NEW f \in Crc, OutStore(f) PROVE OutTypes' /\ AgeInv' /\ TodoInv'
    <3>1. f \in Fields
      BY DEF Fields
    <3> QED BY <2>2, <3>1 DEF OutStore, OutGoto, OutTypes, AgeInv, TodoInv, Ages
  <2> QED BY <1>6, <2>1, <2>2
<1>7. CASE OutSendto
  BY <1>7 DEF OutSendto, OutGoto, OutTypes, AgeInv, TodoInv, Fields
<1>8. CASE UNCHANGED telemetryVars
  BY <1>8 DEF telemetryVars, OutTypes, AgeInv, TodoInv
<1> QED BY <1>2, <1>3, <1>4, <1>5, <1>6, <1>7, <1>8
        DEF TelemetryNext, SerialThread, Line, OutThread

\* The inductive invariant of the composition: the parser's, and the ages of the fields.
THEOREM TelemetryInvariance == TelemetrySpec => [](SerialInv /\ OutTypes /\ AgeInv /\ TodoInv)
<1>1. TelemetrySpec => []SerialInv
  BY TelemetryImplementsSerialSync, SerialInitInv, SerialNextInv, PTL DEF Spec
<1>2. TelemetrySpec => [](OutTypes /\ AgeInv /\ TodoInv)
  BY BufferInit, BufferStep, PTL DEF TelemetrySpec
<1> QED BY <1>1, <1>2, PTL

\* Every reachable state of the parser, the buffer and Thread_TCP_Trooper_Out is well
\* typed.
THEOREM TelemetryTypeCorrect == TelemetrySpec => []TelemetryTypeOK
<1>1. SerialInv /\ OutTypes => TelemetryTypeOK
  BY DEF SerialInv, OutTypes, TelemetryTypeOK
<1> QED BY <1>1, TelemetryInvariance, PTL

\* The parser recovers in time beside the threads that use what it found.
THEOREM TelemetryRecovers == TelemetrySpec => []RecoversInTime
BY TelemetryImplementsSerialSync, ParserRecovers, PTL

\* However memset, memcpy and the crc interleave, no thread sends an operator a byte of
\* the controller older than the last frame, or than the one before it while memcpy runs,
\* and the crc that Thread_TCP_Trooper_Out computed, perhaps of a frame long gone, does
\* not outlast its request.
THEOREM TelemetryNothingStale == TelemetrySpec => []NothingStale
<1>1. AgeInv => NothingStale
  BY DEF AgeInv, NothingStale
<1> QED BY <1>1, TelemetryInvariance, PTL

\* Nor do the threads that use the frames put the parser out of step.
THEOREM TelemetryKeepsStep == TelemetrySpec => KeepsStep
BY TelemetryImplementsSerialSync, ParserKeepsStep
=============================================================================
