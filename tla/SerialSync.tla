----------------------------- MODULE SerialSync -----------------------------
(***************************************************************************)
(* How the robot server finds the telemetry frames in the byte stream of   *)
(* the motor controller: GetRS232Motor33f and readrs232 in                 *)
(* raw_server/simple_server_main.c.  The controller sends frames of a byte *)
(* 255 and PayloadLen bytes that end in a crc; the robot stands still, so  *)
(* that every frame is the same, and some of its payload bytes may be 255  *)
(* too.  The line loses or garbles MaxFaults bytes.                        *)
(***************************************************************************)
EXTENDS Integers, FiniteSets

CONSTANTS
    PayloadLen,     \* 21: the bytes read after the 255
    Patterns,       \* the sets of payload positions that may hold a 255
    MaxFaults       \* bound: bytes lost or garbled on the line

ASSUME SerialAssumption ==
    /\ PayloadLen \in Nat \ {0}
    /\ Patterns \subseteq SUBSET (1 .. PayloadLen)
    /\ MaxFaults \in Nat

VARIABLES
    marks,      \* the payload positions whose byte is 255
    pos,        \* the position in its frame of the next byte of the stream
    pc,         \* which loop of GetRS232Motor33f reads
    got,        \* bytes that readrs232 has put in sbuf
    intact,     \* sbuf is so far the start of a payload, as it was sent
    synced,     \* the last call of GetRS232Motor33f accepted a frame
    fails,      \* calls that failed since a frame was accepted or a byte lost
    faults      \* faults so far

vars == <<marks, pos, pc, got, intact, synced, fails, faults>>

\* The port is opened at any point of the stream.
Init ==
    /\ marks \in Patterns
    /\ pos \in 0 .. PayloadLen
    /\ pc = "sync"
    /\ got = 0
    /\ intact = FALSE /\ synced = FALSE
    /\ fails = 0 /\ faults = 0

\* Mutant: the position runs past the end of the frame.
AdvancePast == pos' = pos + 1

Advance == pos' = (pos + 1) % (PayloadLen + 1)

\* The byte at pos is a 255: the header, or data that looks like it.
IsMark == pos = 0 \/ pos \in marks

\* fails never needs to count further than this.
FailsBound == Cardinality(marks) + 2

-----------------------------------------------------------------------------
\* do { read 1 byte } while (sbuf[0] != 255): a byte, of which the line made a
\* 255 or not.
Sync(isMark) ==
    /\ pc = "sync"
    /\ Advance
    /\ pc' = IF isMark THEN "read" ELSE "sync"
    /\ got' = 0
    /\ intact' = (isMark /\ pos = 0)
    /\ UNCHANGED <<marks, synced>>

\* Mutant: a call that fails does not look for the next 255.
ReadOnly(good) ==
    /\ pc = "read"
    /\ Advance
    /\ got' = (got + 1) % PayloadLen
    /\ intact' = (intact /\ good)
    /\ IF got' # 0
       THEN UNCHANGED <<pc, synced>>
       ELSE pc' = "sync" /\ synced' = intact'
    /\ UNCHANGED marks

\* Mutant: the second loop runs whatever the crc.
ReadResync(good) ==
    /\ pc = "read"
    /\ Advance
    /\ got' = (got + 1) % PayloadLen
    /\ intact' = (intact /\ good)
    /\ IF got' # 0
       THEN UNCHANGED <<pc, synced>>
       ELSE pc' = "resync" /\ synced' = intact'
    /\ UNCHANGED marks

\* read 21 bytes, then compare the crc: crc16 is taken to fail whenever sbuf is
\* not the payload of a frame.  A frame that passes becomes the telemetry.
Read(good) ==
    /\ pc = "read"
    /\ Advance
    /\ got' = (got + 1) % PayloadLen
    /\ intact' = (intact /\ good)
    /\ IF got' # 0
       THEN UNCHANGED <<pc, synced>>
       ELSE pc' = (IF intact' THEN "sync" ELSE "resync") /\ synced' = intact'
    /\ UNCHANGED marks

\* After a crc error, a second loop reads up to the next 255.  The 255 is
\* dropped: the next call starts by looking for another one.
Resync(isMark) ==
    /\ pc = "resync"
    /\ Advance
    /\ pc' = IF isMark THEN "sync" ELSE "resync"
    /\ UNCHANGED <<marks, got, intact, synced>>

\* readrs232 reads a byte as it was sent.
ReadByte ==
    /\ Sync(IsMark) \/ Read(TRUE) \/ Resync(IsMark)
    /\ fails' = IF pc # "read" \/ got' # 0 THEN fails
                ELSE IF intact' THEN 0
                ELSE IF fails < FailsBound THEN fails + 1 ELSE fails
    /\ UNCHANGED faults

\* readrs232 reads a byte that the line has garbled.
Garbled ==
    /\ faults < MaxFaults
    /\ faults' = faults + 1
    /\ Sync(~IsMark) \/ Read(FALSE) \/ Resync(~IsMark)
    /\ fails' = 0

\* The line loses a byte.
Lost ==
    /\ faults < MaxFaults
    /\ faults' = faults + 1
    /\ Advance
    /\ intact' = FALSE
    /\ fails' = 0
    /\ UNCHANGED <<marks, pc, got, synced>>

Next == ReadByte \/ Garbled \/ Lost

Spec == Init /\ [][Next]_vars

\* The controller keeps sending.
FairSpec == Spec /\ WF_vars(ReadByte)

-----------------------------------------------------------------------------
\* Type invariant.
TypeOK ==
    /\ marks \in Patterns
    /\ pos \in 0 .. PayloadLen
    /\ pc \in {"sync", "read", "resync"}
    /\ got \in 0 .. PayloadLen - 1
    /\ intact \in BOOLEAN /\ synced \in BOOLEAN
    /\ fails \in 0 .. FailsBound /\ faults \in 0 .. MaxFaults

\* However the parser lost its place, it has found it again after as many
\* failed calls as the payload has bytes 255, and one more: every failed call
\* moves it to the next 255 of the frame, until that is the header.
RecoversInTime == fails <= Cardinality(marks) + 1

\* The parser stands where the frame does: before a header, or as far into sbuf as
\* into the payload, of which it has every byte.
InStep ==
    \/ pc = "sync" /\ pos = 0
    \/ pc = "read" /\ intact /\ pos = got + 1

\* After a frame is accepted GetRS232Motor33f misses none: the call leaves the parser in
\* step, and only a fault of the line puts it out of step again, wherever the payload
\* holds bytes 255.
KeepsStep ==
    [][faults' = faults =>
          /\ pc = "read" /\ got' = 0 /\ synced' => InStep'
          /\ InStep => InStep']_vars

\* Once the line is clean, GetRS232Motor33f ends up accepting every frame.
StaysInSync == <>[](synced /\ fails = 0)
=============================================================================
